---- MODULE Spec2Model ----
(***************************************************************************)
(* A model of the Feishu (Lark) AWS ticket bot: lambda_function.py,        *)
(* ticket_handler.py, feishu_service.py, aws_service.py and utils.py.      *)
(*                                                                         *)
(* One invocation is one request: it arrives (Receive), the entry point    *)
(* runs to completion in a single step (one action per entry point), and   *)
(* its result is handed back (Return).  The request carries, besides the   *)
(* arguments, the behaviour of the external systems during the invocation  *)
(* (env): the outcome of every attempt of every external call and the      *)
(* order in which the table scan yields its items.                         *)
(*                                                                         *)
(* Identifiers (chat id, user id, service, severity, status) are TLA+       *)
(* strings, '' and None both being "".  Free text (an event's text, a      *)
(* title, a content) is a sequence of characters, '' being <<>>.  A text   *)
(* built with an f-string is the sequence of its parts, and the Chinese    *)
(* literals of the source are written as ASCII tags.                       *)
(***************************************************************************)
EXTENDS Integers, Sequences, FiniteSets, TLC

VARIABLES table, groups, cases, now, phase, req, out

vars == <<table, groups, cases, now, phase, req, out>>

(***************************************************************************)
(* Bounds of the model.                                                    *)
(***************************************************************************)
MaxClock == 2
MaxTickets == 3
MaxGroups == 2
MaxCases == 2

(***************************************************************************)
(* Python values.                                                          *)
(***************************************************************************)
\* bool is a subclass of int in Python: True == 1, False == 0.
PyBool(b) == [t |-> "bool", n |-> IF b THEN 1 ELSE 0]
PyInt(k) == [t |-> "int", n |-> k]
PyTrue == PyBool(TRUE)
PyFalse == PyBool(FALSE)
IsBool(v) == v.t = "bool"
Truthy(v) == v.n # 0

\* A str value and a dict value; kind tells which text or which dict it is.
\* (TLC compares records field by field in the order of the field names and
\* stops at the first difference: cls and kind come before val.)
Str(kind, val) == [cls |-> "str", kind |-> kind, val |-> val]
Dict(kind, val) == [cls |-> "dict", kind |-> kind, val |-> val]
None == [cls |-> "none", kind |-> "none", val |-> <<>>]
IsStr(v) == v.cls = "str"
IsNone(v) == v.cls = "none"

RECURSIVE SumSeq(_)
SumSeq(s) == IF s = <<>> THEN 0 ELSE Head(s) + SumSeq(Tail(s))

Take(s, n) == SubSeq(s, 1, IF n < Len(s) THEN n ELSE Len(s))

Range(s) == {s[i] : i \in DOMAIN s}

Perms(S) == {f \in [1..Cardinality(S) -> S] : \A i, j \in 1..Cardinality(S) : f[i] = f[j] => i = j}

(***************************************************************************)
(* utils.py: configuration.                                                *)
(***************************************************************************)
MAX_HISTORY_RECORDS == 10
DEFAULT_TICKET_STATUS == "pending"

\* The methods class Config defines.  self.config.<name>() of any other name
\* raises AttributeError.
ConfigMethods == {"get_feishu_config", "get_aws_config"}

(***************************************************************************)
(* utils.py: exceptions.  An exception is its class and its message.       *)
(***************************************************************************)
Exc(cls, msg) == [cls |-> cls, msg |-> msg]
NoExc == Exc("none", <<>>)
Raised(e) == e.cls # "none"

\* TicketError and its subclasses.
TicketErrors == {"TicketError", "FeishuAPIError", "AWSServiceError",
                 "ValidationError", "ConfigurationError"}

\* blank[f]: field f is absent from data, None or ''.
validate_required_fields(blank, required_fields, error_message) ==
    LET missing_fields == SelectSeq(required_fields, LAMBDA f : blank[f])
    IN  IF missing_fields # <<>>
        THEN Exc("ValidationError", <<error_message>> \o missing_fields)
        ELSE NoExc

\* except TicketError: raise; except Exception: raise TicketError(...).
handle_exception(func, e) ==
    IF ~Raised(e) \/ e.cls \in TicketErrors
    THEN e
    ELSE Exc("TicketError", <<"function_failed", func>> \o e.msg)

(***************************************************************************)
(* utils.py: retry.  results[i] is what the i-th call of the wrapped       *)
(* function does: the exception it raises (or none) and the value it       *)
(* returns.                                                                *)
(***************************************************************************)
\* except exceptions as e: the tuple (Exception,) catches every class.
retry_catches(exceptions, cls) == "Exception" \in exceptions \/ cls \in exceptions

RECURSIVE retry_loop(_, _, _, _, _, _, _)
retry_loop(results, max_attempts, exceptions, backoff, attempt, current_delay, sleeps) ==
    LET r == results[attempt + 1]
        stop == [runs |-> attempt + 1, sleeps |-> sleeps, exc |-> r.exc, val |-> r.val]
    IN  IF ~Raised(r.exc) THEN stop
        ELSE IF ~retry_catches(exceptions, r.exc.cls) THEN stop
        ELSE IF attempt = max_attempts - 1 THEN stop
        ELSE retry_loop(results, max_attempts, exceptions, backoff, attempt + 1,
                        current_delay * backoff, Append(sleeps, current_delay))

\* A retry that waits the same delay before every further attempt.
retry_fixed_delay(results, max_attempts, delay, backoff, exceptions) ==
    retry_loop(results, max_attempts, exceptions, 1, 0, delay, <<>>)

retry(results, max_attempts, delay, backoff, exceptions) ==
    retry_loop(results, max_attempts, exceptions, backoff, 0, delay, <<>>)

\* What one attempt of a gateway operation does.  issued: the request went out
\* to the external system; ok: the external system carried it out.
Attempt(exc, val, issued, ok) == [exc |-> exc, val |-> val, issued |-> issued, ok |-> ok]

\* The time at which attempt i starts: the sleeps before it have passed.
RECURSIVE Elapsed(_, _, _)
Elapsed(delay, backoff, n) ==
    IF n = 0 THEN 0 ELSE delay + Elapsed(delay * backoff, backoff, n - 1)

\* A decoration whose loop grants one attempt beyond max_attempts; the extra
\* attempt meets what the last one met.
DecoratedOnceMore(func, results, max_attempts, delay, exceptions) ==
    LET again == Append(results, results[Len(results)])
        r == retry(again, max_attempts + 1, delay, 2, exceptions)
    IN  [op |-> func,
         runs |-> r.runs,
         sleeps |-> r.sleeps,
         exc |-> handle_exception(func, r.exc),
         val |-> r.val,
         requests |-> Cardinality({i \in 1..r.runs : again[i].issued}),
         ok |-> again[r.runs].ok]

\* @handle_exception @retry(...) def op: the decorated operation as a whole.
Decorated(func, results, max_attempts, delay, exceptions) ==
    LET r == retry(results, max_attempts, delay, 2, exceptions)
    IN  [op |-> func,
         runs |-> r.runs,
         sleeps |-> r.sleeps,
         exc |-> handle_exception(func, r.exc),
         val |-> r.val,
         requests |-> Cardinality({i \in 1..r.runs : results[i].issued}),
         ok |-> results[r.runs].ok]

(***************************************************************************)
(* aws_service.py: the ticket table.  The table is a set of items in       *)
(* DynamoDB's tagged format, keyed by ticket_id.                           *)
(***************************************************************************)
\* str(n) and int(s) for a natural number: its decimal digits.
RECURSIVE DecStr(_)
DecStr(n) == IF n < 10 THEN <<n>> ELSE Append(DecStr(n \div 10), n % 10)

RECURSIVE ParseInt(_)
ParseInt(ds) ==
    IF Len(ds) = 1 THEN ds[1]
    ELSE 10 * ParseInt(SubSeq(ds, 1, Len(ds) - 1)) + ds[Len(ds)]

\* The fields of a ticket record that hold an int; every other field holds a str.
IntFields == {"created_at", "updated_at"}

\* isinstance(value, str) -> {'S': value}; isinstance(value, (int, float)) ->
\* {'N': str(value)}.
convert_to_dynamodb_item(data) ==
    [k \in DOMAIN data |->
        IF k \in IntFields THEN [tag |-> "N", v |-> DecStr(data[k])]
        ELSE [tag |-> "S", v |-> data[k]]]

\* 'S' in value -> value['S']; 'N' in value -> int(value['N']).
convert_from_dynamodb_item(item) ==
    [k \in DOMAIN item |->
        IF item[k].tag = "S" THEN item[k].v ELSE ParseInt(item[k].v)]

\* The conversion value by value, for a flat record of any Python values.  A
\* str is the sequence of its characters; a float is known by its text.
PyText(chars) == [t |-> "str", s |-> chars]
PyFloat(chars) == [t |-> "float", s |-> chars]
PyNone == [t |-> "none", n |-> 0]

Digits == <<"0", "1", "2", "3", "4", "5", "6", "7", "8", "9">>
IsDigit(c) == \E i \in DOMAIN Digits : Digits[i] = c
DigitValue(c) == (CHOOSE i \in DOMAIN Digits : Digits[i] = c) - 1

\* str(n) for an int n.
RECURSIVE NatText(_)
NatText(n) ==
    IF n < 10 THEN <<Digits[n + 1]>> ELSE Append(NatText(n \div 10), Digits[(n % 10) + 1])

IntText(n) == IF n < 0 THEN <<"-">> \o NatText(0 - n) ELSE NatText(n)

\* str(value) for a value that passes isinstance(value, (int, float)): bool is
\* a subclass of int, and str(True) is 'True'.
NumberText(value) ==
    IF value.t = "bool" THEN (IF value.n = 1 THEN <<"T", "r", "u", "e">>
                              ELSE <<"F", "a", "l", "s", "e">>)
    ELSE IF value.t = "int" THEN IntText(value.n)
    ELSE value.s

\* The texts int() accepts: digits with an optional sign.
AllDigits(chars) == chars # <<>> /\ \A i \in DOMAIN chars : IsDigit(chars[i])
IsIntText(chars) ==
    \/ AllDigits(chars)
    \/ chars # <<>> /\ chars[1] = "-" /\ AllDigits(Tail(chars))

RECURSIVE NatValue(_)
NatValue(chars) ==
    IF chars = <<>> THEN 0
    ELSE 10 * NatValue(SubSeq(chars, 1, Len(chars) - 1)) + DigitValue(chars[Len(chars)])

IntValue(chars) == IF chars[1] = "-" THEN 0 - NatValue(Tail(chars)) ELSE NatValue(chars)

\* The texts float() accepts and int() does not: digits, a point, digits,
\* with an optional sign.
IsFloatText(chars) ==
    \E i \in DOMAIN chars :
        /\ chars[i] = "."
        /\ IsIntText(SubSeq(chars, 1, i - 1))
        /\ AllDigits(SubSeq(chars, i + 1, Len(chars)))

\* The value of a 'BOOL' or 'NULL' attribute, as the store's protocol writes it.
BoolText(b) == IF b THEN <<"true">> ELSE <<"false">>

\* One step of the loop of _convert_to_dynamodb_item: the tests in their order.
to_dynamodb_value(value) ==
    IF value.t = "str" THEN [tag |-> "S", v |-> value.s]
    ELSE IF value.t \in {"int", "float", "bool"} THEN [tag |-> "N", v |-> NumberText(value)]
    ELSE IF value.t = "bool" THEN [tag |-> "BOOL", v |-> BoolText(value.n = 1)]
    ELSE [tag |-> "NULL", v |-> BoolText(TRUE)]

\* One step of the loop of _convert_from_dynamodb_item.
from_dynamodb_value(value) ==
    IF value.tag = "S" THEN PyText(value.v)
    ELSE IF value.tag = "N"
         THEN IF IsIntText(value.v) THEN PyInt(IntValue(value.v))
              ELSE IF IsFloatText(value.v) THEN PyFloat(value.v)
              ELSE PyText(value.v)
    ELSE IF value.tag = "BOOL" THEN PyBool(value.v = BoolText(TRUE))
    ELSE PyNone

to_dynamodb_record(data) == [k \in DOMAIN data |-> to_dynamodb_value(data[k])]
from_dynamodb_record(item) == [k \in DOMAIN item |-> from_dynamodb_value(item[k])]

\* put_item: an upsert on the key ticket_id.
PutItem(tbl, item) == {x \in tbl : x.ticket_id # item.ticket_id} \cup {item}

\* A ticket identifier f"TICKET-{n}"; the empty string is <<>>.
TicketId(n) == <<"TICKET-", n>>
NoTicketId == <<>>

\* ticket.get('created_at', 0)
CreatedAtKey(ticket) == IF "created_at" \in DOMAIN ticket THEN ticket.created_at ELSE 0

\* An insertion for a sort that leaves reverse=True out: oldest first.
InsertAsc(sorted, x) ==
    LET earlier == {i \in DOMAIN sorted : CreatedAtKey(sorted[i]) > CreatedAtKey(x)}
        at == IF earlier = {} THEN Len(sorted) + 1
              ELSE CHOOSE i \in earlier : \A j \in earlier : i <= j
    IN  SubSeq(sorted, 1, at - 1) \o <<x>> \o SubSeq(sorted, at, Len(sorted))

\* tickets.sort(key=created_at, reverse=True): Python's sort is stable, also
\* when reversed.
InsertDesc(sorted, x) ==
    LET later == {i \in DOMAIN sorted : CreatedAtKey(sorted[i]) < CreatedAtKey(x)}
        at == IF later = {} THEN Len(sorted) + 1
              ELSE CHOOSE i \in later : \A j \in later : i <= j
    IN  SubSeq(sorted, 1, at - 1) \o <<x>> \o SubSeq(sorted, at, Len(sorted))

RECURSIVE SortByCreatedDesc(_)
SortByCreatedDesc(tickets) ==
    IF tickets = <<>> THEN <<>>
    ELSE InsertDesc(SortByCreatedDesc(SubSeq(tickets, 1, Len(tickets) - 1)),
                    tickets[Len(tickets)])

\* The retry decorator of the three store operations and of create_support_case.
StoreRetryExceptions == {"ClientError", "BotoCoreError"}

\* except ClientError / except Exception inside the operation: what the boto3
\* client raised is re-raised as AWSServiceError.
AwsError(what, outcome) ==
    Exc("AWSServiceError", <<what, outcome>>)

\* A save_ticket that stamps the record with the second of its identifier,
\* the time at which the identifier was generated.
save_ticket_attempt_at_id_time(a, outcome, t) ==
    LET stamp == IF a.ticket_id = NoTicketId THEN t ELSE a.ticket_id[2]
        base == [ticket_id |-> a.ticket_id,
                 user_id |-> a.user_id,
                 title |-> a.title,
                 service |-> a.service,
                 severity |-> a.severity,
                 status |-> IF a.status # "" THEN a.status ELSE DEFAULT_TICKET_STATUS,
                 created_at |-> stamp,
                 updated_at |-> stamp]
        ticket_data == IF a.chat_id # "" THEN ("chat_id" :> a.chat_id) @@ base ELSE base
    IN  IF outcome = "ok" THEN Attempt(NoExc, ticket_data, TRUE, TRUE)
        ELSE Attempt(AwsError("save_ticket_failed", outcome), None, TRUE, FALSE)

\* One run of save_ticket's body at time t; outcome is what put_item does.
save_ticket_attempt(a, outcome, t) ==
    LET v == validate_required_fields(
                 [f \in {"ticket_id", "user_id", "title", "service", "severity"} |->
                     IF f = "ticket_id" THEN a.ticket_id = NoTicketId
                     ELSE IF f = "title" THEN a.title = <<>>
                     ELSE a[f] = ""],
                 <<"ticket_id", "user_id", "title", "service", "severity">>,
                 "save_ticket_args_incomplete")
        base == [ticket_id |-> a.ticket_id,
                 user_id |-> a.user_id,
                 title |-> a.title,
                 service |-> a.service,
                 severity |-> a.severity,
                 status |-> IF a.status # "" THEN a.status ELSE DEFAULT_TICKET_STATUS,
                 created_at |-> t,
                 updated_at |-> t]
        ticket_data == IF a.chat_id # "" THEN ("chat_id" :> a.chat_id) @@ base ELSE base
    IN  IF Raised(v) THEN Attempt(v, None, FALSE, FALSE)
        ELSE IF outcome = "ok" THEN Attempt(NoExc, ticket_data, TRUE, TRUE)
        ELSE Attempt(AwsError("save_ticket_failed", outcome), None, TRUE, FALSE)

\* DynamoDBService.save_ticket as decorated; outcomes[i] is what the i-th
\* put_item does.
save_ticket(a, outcomes, t) ==
    Decorated("save_ticket",
              [i \in 1..3 |-> save_ticket_attempt(a, outcomes[i], t + Elapsed(1, 2, i - 1))],
              3, 1, StoreRetryExceptions)

\* The table after save_ticket returned d.
TableAfterSave(tbl, d) ==
    IF d.ok THEN PutItem(tbl, convert_to_dynamodb_item(d.val)) ELSE tbl

\* A scan that leaves the FilterExpression out: every item evaluated is
\* returned.
scan_all_attempt(user_id, limit, outcome, order) ==
    LET v == validate_required_fields([f \in {"user_id"} |-> user_id = ""],
                                      <<"user_id">>, "get_user_tickets_args_incomplete")
        query_limit == IF limit # 0 THEN limit ELSE MAX_HISTORY_RECORDS
        items == Take(order, query_limit)
        tickets == [i \in DOMAIN items |-> convert_from_dynamodb_item(items[i])]
    IN  IF Raised(v) THEN Attempt(v, <<>>, FALSE, FALSE)
        ELSE IF outcome = "ok" THEN Attempt(NoExc, SortByCreatedDesc(tickets), TRUE, TRUE)
        ELSE Attempt(AwsError("get_user_tickets_failed", outcome), <<>>, TRUE, FALSE)

\* A scan without Limit: every item of the table is evaluated.
get_user_tickets_attempt_unlimited(user_id, limit, outcome, order) ==
    LET items == SelectSeq(order,
                           LAMBDA item : "user_id" \in DOMAIN item
                                         /\ item.user_id = [tag |-> "S", v |-> user_id])
        tickets == [i \in DOMAIN items |-> convert_from_dynamodb_item(items[i])]
    IN  IF outcome = "ok" THEN Attempt(NoExc, SortByCreatedDesc(tickets), TRUE, TRUE)
        ELSE Attempt(AwsError("get_user_tickets_failed", outcome), <<>>, TRUE, FALSE)

\* One run of get_user_tickets' body; order is the order in which the scan
\* yields the table's items.  Limit bounds the items the scan evaluates.
get_user_tickets_attempt(user_id, limit, outcome, order) ==
    LET v == validate_required_fields([f \in {"user_id"} |-> user_id = ""],
                                      <<"user_id">>, "get_user_tickets_args_incomplete")
        query_limit == IF limit # 0 THEN limit ELSE MAX_HISTORY_RECORDS
        items == SelectSeq(Take(order, query_limit),
                           LAMBDA item : "user_id" \in DOMAIN item
                                         /\ item.user_id = [tag |-> "S", v |-> user_id])
        tickets == [i \in DOMAIN items |-> convert_from_dynamodb_item(items[i])]
    IN  IF Raised(v) THEN Attempt(v, <<>>, FALSE, FALSE)
        ELSE IF outcome = "ok" THEN Attempt(NoExc, SortByCreatedDesc(tickets), TRUE, TRUE)
        ELSE Attempt(AwsError("get_user_tickets_failed", outcome), <<>>, TRUE, FALSE)

get_user_tickets(user_id, limit, outcomes, order) ==
    Decorated("get_user_tickets",
              [i \in 1..3 |-> get_user_tickets_attempt(user_id, limit, outcomes[i], order)],
              3, 1, StoreRetryExceptions)

\* One run of update_ticket_status' body at time t.
update_ticket_status_attempt(a, outcome) ==
    LET v == validate_required_fields(
                 [f \in {"ticket_id", "status"} |->
                     IF f = "ticket_id" THEN a.ticket_id = NoTicketId ELSE a[f] = ""],
                 <<"ticket_id", "status">>, "update_ticket_status_args_incomplete")
    IN  IF Raised(v) THEN Attempt(v, PyFalse, FALSE, FALSE)
        ELSE IF outcome = "ok" THEN Attempt(NoExc, PyTrue, TRUE, TRUE)
        ELSE Attempt(AwsError("update_ticket_status_failed", outcome), PyFalse, TRUE, FALSE)

update_ticket_status(a, outcomes) ==
    Decorated("update_ticket_status",
              [i \in 1..3 |-> update_ticket_status_attempt(a, outcomes[i])],
              3, 1, StoreRetryExceptions)

\* An update that puts a whole new item under the key: the attributes it does
\* not set are lost.
UpdateItemReplacing(tbl, a, t) ==
    LET set1 == [ticket_id |-> [tag |-> "S", v |-> a.ticket_id],
                 status |-> [tag |-> "S", v |-> a.status],
                 updated_at |-> [tag |-> "N", v |-> DecStr(t)]]
        set2 == IF a.aws_case_id # ""
                THEN ("aws_case_id" :> [tag |-> "S", v |-> a.aws_case_id]) @@ set1
                ELSE set1
    IN  PutItem(tbl, set2)

\* update_item with SET #status, updated_at (, aws_case_id) on Key ticket_id:
\* the named attributes are written, the others are kept; an item that does
\* not exist is created with the key and the attributes set.
UpdateItem(tbl, a, t) ==
    LET old == {x \in tbl : x.ticket_id = [tag |-> "S", v |-> a.ticket_id]}
        kept == IF old = {} THEN [ticket_id |-> [tag |-> "S", v |-> a.ticket_id]]
                ELSE CHOOSE x \in old : TRUE
        set1 == [status |-> [tag |-> "S", v |-> a.status],
                 updated_at |-> [tag |-> "N", v |-> DecStr(t)]]
        set2 == IF a.aws_case_id # ""
                THEN ("aws_case_id" :> [tag |-> "S", v |-> a.aws_case_id]) @@ set1
                ELSE set1
    IN  (tbl \ old) \cup {set2 @@ kept}

\* One run of create_support_case's body; n is the number of cases so far.
create_support_case_attempt(a, outcome, n) ==
    LET v == validate_required_fields(
                 [f \in {"title", "service", "severity", "content"} |->
                     IF f \in {"title", "content"} THEN a[f] = <<>> ELSE a[f] = ""],
                 <<"title", "service", "severity", "content">>,
                 "create_support_case_args_incomplete")
    IN  IF Raised(v) THEN Attempt(v, None, FALSE, FALSE)
        ELSE IF outcome = "ok"
             THEN Attempt(NoExc, Str("case_id", <<n + 1>>), TRUE, TRUE)
        ELSE Attempt(AwsError("create_support_case_failed", outcome), None, TRUE, FALSE)

create_support_case(a, outcomes, n) ==
    Decorated("create_support_case",
              [i \in 1..2 |-> create_support_case_attempt(a, outcomes[i], n)],
              2, 2, StoreRetryExceptions)

(***************************************************************************)
(* feishu_service.py.                                                      *)
(***************************************************************************)
FeishuRetryExceptions == {"Exception"}

\* raise FeishuAPIError inside the try is caught by its own except Exception
\* and re-raised as FeishuAPIError(request failed: ...).
FeishuError(what, outcome) == Exc("FeishuAPIError", <<what, outcome>>)

\* One run of send_message's body; content is None or a dict.
send_message_attempt(chat_id, msg_type, content, outcome) ==
    LET v == validate_required_fields(
                 [f \in {"chat_id", "msg_type", "content"} |->
                     IF f = "chat_id" THEN chat_id = ""
                     ELSE IF f = "msg_type" THEN msg_type = ""
                     ELSE IsNone(content)],
                 <<"chat_id", "msg_type", "content">>, "send_message_args_incomplete")
    IN  IF Raised(v) THEN Attempt(v, None, FALSE, FALSE)
        ELSE IF outcome = "ok" THEN Attempt(NoExc, Dict("code_0", <<>>), TRUE, TRUE)
        ELSE Attempt(FeishuError("send_message_request_failed", outcome), None, TRUE, FALSE)

\* A send_message with a budget of three attempts; the third meets what the
\* second met.
send_message_thrice(chat_id, msg_type, content, outcomes) ==
    Decorated("send_message",
              [i \in 1..3 |-> send_message_attempt(chat_id, msg_type, content,
                                                   outcomes[IF i < 3 THEN i ELSE 2])],
              3, 1, FeishuRetryExceptions)

send_message(chat_id, msg_type, content, outcomes) ==
    Decorated("send_message",
              [i \in 1..2 |-> send_message_attempt(chat_id, msg_type, content, outcomes[i])],
              2, 1, FeishuRetryExceptions)

\* One run of create_chat's body.  ok: the group is created and its id
\* returned; noid: the response is a success without a chat id.
create_chat_attempt(chat_name, outcome) ==
    LET v == validate_required_fields([f \in {"chat_name"} |-> chat_name = <<>>],
                                      <<"chat_name">>, "create_chat_args_incomplete")
    IN  IF Raised(v) THEN Attempt(v, "", FALSE, FALSE)
        ELSE IF outcome = "ok" THEN Attempt(NoExc, "oc_1", TRUE, TRUE)
        ELSE Attempt(FeishuError("create_chat_request_failed", outcome), "", TRUE,
                     outcome = "noid")

create_chat(chat_name, outcomes) ==
    Decorated("create_chat",
              [i \in 1..2 |-> create_chat_attempt(chat_name, outcomes[i])],
              2, 1, FeishuRetryExceptions)

(***************************************************************************)
(* The effects of one invocation.  fx.ops lists the gateway operations     *)
(* called, in order, each with the number of runs of its body, the         *)
(* requests it issued, its sleeps and its outcome.                         *)
(***************************************************************************)
Fx(tbl, grp, cs) == [table |-> tbl, groups |-> grp, cases |-> cs, ops |-> <<>>]

OpEntry(d, chat, content) ==
    [op |-> d.op, runs |-> d.runs, requests |-> d.requests, sleeps |-> d.sleeps,
     ok |-> d.ok, exc |-> d.exc.cls, chat |-> chat, content |-> content]

OpsOf(fx, op) == SelectSeq(fx.ops, LAMBDA e : e.op = op)

\* int(time.time()) after the effects fx of an invocation that began at t0.
Clock(fx, t0) == t0 + SumSeq([i \in DOMAIN fx.ops |-> SumSeq(fx.ops[i].sleeps)])

Called(fx, d, chat, content) == [fx EXCEPT !.ops = Append(@, OpEntry(d, chat, content))]

\* self.feishu_service.send_message(...): the k-th call of the invocation
\* meets the outcomes env.send[k].
CallSendMessage(fx, env, chat_id, msg_type, content) ==
    LET k == Len(OpsOf(fx, "send_message")) + 1
        d == send_message(chat_id, msg_type, content, env.send[k])
    IN  [fx |-> Called(fx, d, chat_id, content), exc |-> d.exc, val |-> d.val]

\* self.feishu_service.create_chat(...): every attempt the server carried out
\* (ok or noid) leaves a group behind.
CallCreateChat(fx, env, chat_name) ==
    LET d == create_chat(chat_name, env.chat)
        made == IF d.requests = 0 THEN 0
                ELSE Cardinality({i \in 1..d.runs : env.chat[i] \in {"ok", "noid"}})
    IN  [fx |-> [Called(fx, d, "", None) EXCEPT
                    !.groups = @ \o [i \in 1..made |-> chat_name]],
         exc |-> d.exc, val |-> d.val]

CallSaveTicket(fx, env, a, t0) ==
    LET d == save_ticket(a, env.store, Clock(fx, t0))
    IN  [fx |-> [Called(fx, d, "", None) EXCEPT !.table = TableAfterSave(@, d)],
         exc |-> d.exc, val |-> d.val]

CallGetUserTickets(fx, env, user_id, limit) ==
    LET d == get_user_tickets(user_id, limit, env.store, env.order)
    IN  [fx |-> Called(fx, d, "", None), exc |-> d.exc, val |-> d.val]

CallUpdateTicketStatus(fx, env, a, t0) ==
    LET d == update_ticket_status(a, env.store)
    IN  [fx |-> [Called(fx, d, "", None) EXCEPT
                    !.table = IF d.ok THEN UpdateItem(@, a, Clock(fx, t0)) ELSE @],
         exc |-> d.exc, val |-> d.val]

CallCreateSupportCase(fx, env, a) ==
    LET d == create_support_case(a, env.case, fx.cases)
    IN  [fx |-> [Called(fx, d, "", None) EXCEPT !.cases = IF d.ok THEN @ + 1 ELSE @],
         exc |-> d.exc, val |-> d.val]

(***************************************************************************)
(* utils.py: the response envelope.                                        *)
(***************************************************************************)
\* create_response(success, message, data): no caller passes an error_code.
create_response(success, message, data, t) ==
    [success |-> success, message |-> message, timestamp |-> t, data |-> data]

NoResp == create_response(PyFalse, None, None, 0)

\* What a handler does: it returns a response or raises.
Returns(fx, resp) == [fx |-> fx, exc |-> NoExc, resp |-> resp]
Raises(fx, e) == [fx |-> fx, exc |-> e, resp |-> NoResp]

(***************************************************************************)
(* ticket_handler.py: the command handlers.  t0 is the time at which the   *)
(* invocation begins.                                                      *)
(***************************************************************************)
\* A create command that opens the discussion group at once, before any card
\* is submitted.
create_command_with_group(fx, env, t0, chat_id, title) ==
    LET s == CallSendMessage(fx, env, chat_id, "interactive", Dict("card", title))
        c == CallCreateChat(s.fx, env, <<"AWS_ticket-", TicketId(t0)>>)
    IN  Returns(c.fx, create_response(PyTrue, Str("card_sent", <<>>), None, Clock(c.fx, t0)))

handle_create_ticket_command(fx, env, t0, chat_id, title) ==
    LET v == validate_required_fields(
                 [f \in {"chat_id", "title"} |->
                     IF f = "chat_id" THEN chat_id = "" ELSE title = <<>>],
                 <<"chat_id", "title">>, "create_ticket_args_incomplete")
        s == CallSendMessage(fx, env, chat_id, "interactive", Dict("card", title))
    IN  IF Raised(v) THEN Raises(fx, handle_exception("handle_create_ticket_command", v))
        ELSE IF Raised(s.exc)
             THEN Returns(s.fx, create_response(PyFalse,
                                 Str("create_command_failed", s.exc.msg), None,
                                 Clock(s.fx, t0)))
        ELSE Returns(s.fx, create_response(PyTrue, Str("card_sent", <<>>), None,
                                           Clock(s.fx, t0)))

\* format_timestamp(created_at, '%Y-%m-%d %H:%M'): the time to the minute.
format_timestamp(ticket) ==
    IF "created_at" \in DOMAIN ticket THEN <<"minute", ticket.created_at \div 60>>
    ELSE <<"unknown_time">>

\* ticket.get(field, '')
GetStr(ticket, field) == IF field \in DOMAIN ticket THEN ticket[field] ELSE ""

\* _build_history_message: the header, then one block per ticket, in order.
build_history_message(tickets) ==
    [i \in DOMAIN tickets |->
        [ticket_id |-> IF "ticket_id" \in DOMAIN tickets[i] THEN tickets[i].ticket_id
                       ELSE NoTicketId,
         title |-> IF "title" \in DOMAIN tickets[i] THEN tickets[i].title ELSE <<>>,
         service |-> GetStr(tickets[i], "service"),
         severity |-> GetStr(tickets[i], "severity"),
         status |-> IF "status" \in DOMAIN tickets[i] THEN tickets[i].status ELSE "unknown",
         created_time |-> format_timestamp(tickets[i]),
         group |-> IF GetStr(tickets[i], "chat_id") # "" THEN "group_named" ELSE "not_created"]]

\* The except branch of handle_history_command and handle_content_command:
\* the error text is sent to the chat, then returned as a failure.
ReportFailure(func, fx, env, t0, chat_id, error_msg) ==
    LET s == CallSendMessage(fx, env, chat_id, "text", Dict("text", error_msg))
    IN  IF Raised(s.exc) THEN Raises(s.fx, handle_exception(func, s.exc))
        ELSE Returns(s.fx, create_response(PyFalse, error_msg, None, Clock(s.fx, t0)))

handle_history_command(fx, env, t0, chat_id, user_id) ==
    LET func == "handle_history_command"
        v == validate_required_fields(
                 [f \in {"chat_id", "user_id"} |->
                     IF f = "chat_id" THEN chat_id = "" ELSE user_id = ""],
                 <<"chat_id", "user_id">>, "history_args_incomplete")
        g == CallGetUserTickets(fx, env, user_id, 0)
        tickets == g.val
        message == Str("no_records", <<>>)
        s0 == CallSendMessage(g.fx, env, chat_id, "text", Dict("text", message))
        history_text == Str("history", build_history_message(tickets))
        s1 == CallSendMessage(g.fx, env, chat_id, "text", Dict("text", history_text))
    IN  IF Raised(v) THEN Raises(fx, handle_exception(func, v))
        ELSE IF Raised(g.exc)
             THEN ReportFailure(func, g.fx, env, t0, chat_id,
                                Str("history_failed", g.exc.msg))
        ELSE IF tickets = <<>>
             THEN IF Raised(s0.exc)
                  THEN ReportFailure(func, s0.fx, env, t0, chat_id,
                                     Str("history_failed", s0.exc.msg))
                  ELSE Returns(s0.fx, create_response(PyTrue, message, None,
                                                      Clock(s0.fx, t0)))
        ELSE IF Raised(s1.exc)
             THEN ReportFailure(func, s1.fx, env, t0, chat_id,
                                Str("history_failed", s1.exc.msg))
        ELSE Returns(s1.fx, create_response(PyTrue, Str("history_sent", <<Len(tickets)>>),
                                            None, Clock(s1.fx, t0)))

\* The placeholder case of handle_content_command.
PlaceholderCase(content) ==
    [title |-> <<"sample_title">>, service |-> "amazon-elastic-compute-cloud-linux",
     severity |-> "low", content |-> content]

handle_content_command(fx, env, t0, chat_id, user_id, content) ==
    LET func == "handle_content_command"
        v == validate_required_fields(
                 [f \in {"chat_id", "user_id", "content"} |->
                     IF f = "chat_id" THEN chat_id = ""
                     ELSE IF f = "user_id" THEN user_id = ""
                     ELSE content = <<>>],
                 <<"chat_id", "user_id", "content">>, "content_args_incomplete")
        c == CallCreateSupportCase(fx, env, PlaceholderCase(content))
        success_msg == Str("case_created", c.val.val)
        s == CallSendMessage(c.fx, env, chat_id, "text", Dict("text", success_msg))
    IN  IF Raised(v) THEN Raises(fx, handle_exception(func, v))
        ELSE IF Raised(c.exc)
             THEN ReportFailure(func, c.fx, env, t0, chat_id,
                                Str("create_case_failed", c.exc.msg))
        ELSE IF Raised(s.exc)
             THEN ReportFailure(func, s.fx, env, t0, chat_id,
                                Str("create_case_failed", s.exc.msg))
        ELSE Returns(s.fx, create_response(PyTrue, success_msg, None, Clock(s.fx, t0)))

handle_help_command(fx, env, t0, chat_id) ==
    LET s == CallSendMessage(fx, env, chat_id, "text", Dict("text", Str("help_text", <<>>)))
    IN  IF Raised(s.exc)
        THEN Returns(s.fx, create_response(PyFalse, Str("help_failed", s.exc.msg), None,
                                           Clock(s.fx, t0)))
        ELSE Returns(s.fx, create_response(PyTrue, Str("help_sent", <<>>), None,
                                           Clock(s.fx, t0)))

(***************************************************************************)
(* JSON.  The JSON text of a value v is Str("json", v); a text that is not *)
(* JSON is Str("invalid_json", <<>>).  A JSON value is an object (a dict), *)
(* or something else (a list stands for every non-object).                 *)
(***************************************************************************)
JsonText(v) == Str("json", v)
InvalidJson == Str("invalid_json", <<>>)
ListVal == [cls |-> "list", kind |-> "list", val |-> <<>>]
IsDict(v) == v.cls = "dict"

\* json.loads raises for a str that is not JSON (JSONDecodeError) and for a
\* value that is not a str (TypeError): both give default.
safe_json_loads(json_str, default) ==
    IF IsStr(json_str) /\ json_str.kind = "json" THEN json_str.val ELSE default

(***************************************************************************)
(* Text: str.startswith, slicing and str.strip on sequences of characters. *)
(***************************************************************************)
Space == " "
CreateKeyword == <<"kai", "gong", "dan">>
ContentKeyword == <<"nei", "rong">>
HelpKeyword == <<"bang", "zhu">>
HistoryKeyword == <<"li", "shi">>

\* The prefix occurs anywhere in the text.
contains(text, prefix) ==
    \E i \in 1..(Len(text) - Len(prefix) + 1) :
        SubSeq(text, i, i + Len(prefix) - 1) = prefix

startswith(text, prefix) ==
    Len(text) >= Len(prefix) /\ SubSeq(text, 1, Len(prefix)) = prefix

SliceFrom(text, n) == SubSeq(text, n + 1, Len(text))

RECURSIVE lstrip(_)
lstrip(text) ==
    IF text # <<>> /\ Head(text) = Space THEN lstrip(Tail(text)) ELSE text

RECURSIVE rstrip(_)
rstrip(text) ==
    IF text # <<>> /\ text[Len(text)] = Space
    THEN rstrip(SubSeq(text, 1, Len(text) - 1)) ELSE text

strip(text) == rstrip(lstrip(text))

(***************************************************************************)
(* ticket_handler.py: the event parser and the command router.  An event   *)
(* body is a dict with the fields challenge ("" when absent), ev (the      *)
(* event envelope) and card (the card interaction).                        *)
(***************************************************************************)
Triple(chat_id, text, user_id) == [chat_id |-> chat_id, text |-> text, user_id |-> user_id]

\* A key that is absent from a dict, and a value that is not a dict.
Absent == None
Junk == Str("junk", <<>>)

\* The message object and the sender object of an event.
Message(chat_id, content) == Dict("message", [chat_id |-> chat_id, content |-> content])
Sender(user_id) == Dict("sender", [user_id |-> user_id])

\* The payload shapes.  2.0: {header, event: {type, message, sender:
\* {sender_id: {user_id}}}}.  1.0: {type, message, sender_id: {user_id}}.
V2Event(etype, message, sender) ==
    [header |-> TRUE,
     event |-> Dict("event", [type |-> etype, message |-> message, sender |-> sender]),
     type |-> "", message |-> Absent, sender_id |-> Absent]
V1Event(type, message, sender_id) ==
    [header |-> FALSE, event |-> Absent, type |-> type, message |-> message,
     sender_id |-> sender_id]

\* The statements both branches run on their message and sender objects:
\* x.get on a value that is not a dict raises AttributeError, which the
\* except logs: what was assigned before stays.
ParseMessage(message, sender) ==
    IF ~IsNone(message) /\ ~IsDict(message) THEN Triple("", <<>>, "")
    ELSE LET chat_id == IF IsNone(message) THEN "" ELSE message.val.chat_id
             content == IF IsNone(message) THEN Dict("obj", [text |-> <<>>])
                        ELSE safe_json_loads(message.val.content, None)
         IN  IF ~IsDict(content) THEN Triple(chat_id, <<>>, "")
             ELSE IF IsNone(sender) THEN Triple(chat_id, content.val.text, "")
             ELSE IF ~IsDict(sender) THEN Triple(chat_id, content.val.text, "")
             ELSE Triple(chat_id, content.val.text, sender.val.user_id)

\* A 1.0 branch that looks for the sender where the 2.0 payload has it.
parse_v1_sender(ev) == ParseMessage(ev.message, Absent)

\* if 'header' in body and 'event' in body: the 2.0 branch.
parse_v2(ev) ==
    IF ~IsDict(ev.event) THEN Triple("", <<>>, "")
    ELSE IF ev.event.val.type # "message" THEN Triple("", <<>>, "")
    ELSE ParseMessage(ev.event.val.message, ev.event.val.sender)

\* elif 'type' in body and body.get('type') == 'message': the 1.0 branch.
parse_v1(ev) == ParseMessage(ev.message, ev.sender_id)

\* 'header' in body raises TypeError for a body that is None; a list has
\* neither key.
parse_feishu_event(body) ==
    IF ~IsDict(body) THEN Triple("", <<>>, "")
    ELSE LET ev == body.val.ev
         IN  IF ev.header /\ ~IsNone(ev.event) THEN parse_v2(ev)
             ELSE IF ev.type = "message" THEN parse_v1(ev)
             ELSE Triple("", <<>>, "")

\* except Exception in handle_feishu_event: create_response(500, {"error": ...}).
EventFailure(r, t0) ==
    IF Raised(r.exc)
    THEN Returns(r.fx, create_response(PyInt(500),
                           Dict("error", <<"feishu_event_failed">> \o r.exc.msg), None,
                           Clock(r.fx, t0)))
    ELSE r

\* The prompt of a command without its argument, then create_response(200, ...).
Prompt(fx, env, t0, chat_id, which) ==
    LET s == CallSendMessage(fx, env, chat_id, "text", Dict("text", Str(which, <<>>)))
    IN  IF Raised(s.exc) THEN Raises(s.fx, s.exc)
        ELSE Returns(s.fx, create_response(PyInt(200), Dict("success_true", <<>>), None,
                                           Clock(s.fx, t0)))

\* A test of the parsed event that leaves the user id out.
EventIncompleteNoUser(p) == p.chat_id = "" \/ p.text = <<>>

\* if not chat_id or not text or not user_id
EventIncomplete(p) == p.chat_id = "" \/ p.text = <<>> \/ p.user_id = ""

handle_feishu_event(fx, env, t0, body) ==
    LET p == parse_feishu_event(body)
        title == strip(SliceFrom(p.text, 3))
        content == strip(SliceFrom(p.text, 2))
    IN  IF EventIncomplete(p)
        THEN Returns(fx, create_response(PyInt(200), Dict("success_true_message", <<>>),
                                         None, t0))
        ELSE IF startswith(p.text, CreateKeyword)
             THEN IF title # <<>>
                  THEN EventFailure(handle_create_ticket_command(fx, env, t0, p.chat_id, title), t0)
                  ELSE EventFailure(Prompt(fx, env, t0, p.chat_id, "prompt_title"), t0)
        ELSE IF startswith(p.text, ContentKeyword)
             THEN IF content # <<>>
                  THEN EventFailure(handle_content_command(fx, env, t0, p.chat_id,
                                                           p.user_id, content), t0)
                  ELSE EventFailure(Prompt(fx, env, t0, p.chat_id, "prompt_content"), t0)
        ELSE IF strip(p.text) = HelpKeyword
             THEN EventFailure(handle_help_command(fx, env, t0, p.chat_id), t0)
        ELSE IF strip(p.text) = HistoryKeyword
             THEN EventFailure(handle_history_command(fx, env, t0, p.chat_id, p.user_id), t0)
        ELSE Returns(fx, create_response(PyInt(200), Dict("success_true", <<>>), None, t0))

(***************************************************************************)
(* ticket_handler.py: the card action resolver and the ticket submission.  *)
(* A card interaction is [value, option, user_id]: action.value,           *)
(* action.option and user_id of the payload.                               *)
(***************************************************************************)
EmptyAction == Dict("obj", [action |-> "", title |-> <<>>])

\* A resolver that takes a mapping only and decodes no text.
parse_action_value_dict(value) ==
    IF IsDict(value) THEN value ELSE EmptyAction

parse_action_value(value) ==
    IF IsStr(value) THEN safe_json_loads(value, EmptyAction)
    ELSE IF IsDict(value) THEN value
    ELSE EmptyAction

\* 'service' in key, for a key that is a str: a substring test.  A key is the
\* sequence of its parts.
KeyContains(key, token) == \E i \in DOMAIN key : key[i] = token

\* 'service' in option, for an option that is a dict: a test for the key.
HasKey(option, token) == option.key = <<token>>

\* One step of either loop: the assignment made for an item.
FormStep(sel, item, isService, isSeverity) ==
    IF isService THEN [sel EXCEPT !.service = item.value]
    ELSE IF isSeverity THEN [sel EXCEPT !.severity = item.value]
    ELSE sel

RECURSIVE ScanOptions(_, _, _)
ScanOptions(items, asList, sel) ==
    IF items = <<>> THEN sel
    ELSE LET item == Head(items)
             next == IF asList
                     THEN FormStep(sel, item, HasKey(item, "service"), HasKey(item, "severity"))
                     ELSE FormStep(sel, item, KeyContains(item.key, "service"),
                                   KeyContains(item.key, "severity"))
         IN  ScanOptions(Tail(items), asList, next)

\* options is a list of dicts {key: ..., 'value': v}, a dict {key: v}, or
\* neither.
parse_form_options(option) ==
    IF option.cls = "list" THEN ScanOptions(option.val, TRUE, [service |-> "", severity |-> ""])
    ELSE IF IsDict(option) THEN ScanOptions(option.val, FALSE, [service |-> "", severity |-> ""])
    ELSE [service |-> "", severity |-> ""]

\* A validation that reports the form's fields and forgets the user.
MissingFormFields(title, service, severity, user_id) ==
    (IF title = <<>> THEN <<"title">> ELSE <<>>)
    \o (IF service = "" THEN <<"service_type">> ELSE <<>>)
    \o (IF severity = "" THEN <<"severity">> ELSE <<>>)

\* The labels of the missing fields, in the order of the four tests.
MissingFields(title, service, severity, user_id) ==
    (IF title = <<>> THEN <<"title">> ELSE <<>>)
    \o (IF service = "" THEN <<"service_type">> ELSE <<>>)
    \o (IF severity = "" THEN <<"severity">> ELSE <<>>)
    \o (IF user_id = "" THEN <<"user_id">> ELSE <<>>)

\* not all([title, service, severity, user_id])
SubmissionIncomplete(title, service, severity, user_id) ==
    title = <<>> \/ service = "" \/ severity = "" \/ user_id = ""

\* except Exception in _handle_submit_ticket.
SubmitFailure(fx, t0, e) ==
    Returns(fx, create_response(PyFalse, Str("create_ticket_failed", e.msg), None,
                                Clock(fx, t0)))

\* self.config.get_chat_config(): an AttributeError unless Config has it.
get_chat_config ==
    IF "get_chat_config" \in ConfigMethods THEN NoExc
    ELSE Exc("AttributeError", <<"Config", "get_chat_config">>)

\* _handle_submit_ticket from the creation of the group on.
SubmitValid(fx, env, t0, title, service, severity, user_id) ==
    LET ticket_id == TicketId(t0)
        chat_name == <<"AWS_ticket-", ticket_id>>
        c == CallCreateChat(fx, env, chat_name)
        chat_id == c.val
        w == CallSaveTicket(c.fx, env,
                            [ticket_id |-> ticket_id, user_id |-> user_id, title |-> title,
                             service |-> service, severity |-> severity,
                             chat_id |-> chat_id, status |-> ""], t0)
        s == CallSendMessage(w.fx, env, chat_id, "text",
                             Dict("text", Str("ticket_created_in_group", <<ticket_id>>)))
    IN  IF Raised(c.exc) THEN SubmitFailure(c.fx, t0, c.exc)
        ELSE IF Raised(w.exc) THEN SubmitFailure(w.fx, t0, w.exc)
        ELSE IF chat_id # ""
             THEN IF Raised(s.exc) THEN SubmitFailure(s.fx, t0, s.exc)
                  ELSE Returns(s.fx, create_response(PyTrue,
                                         Str("ticket_created_with_group", <<ticket_id>>),
                                         Dict("ticket", <<ticket_id, chat_id>>),
                                         Clock(s.fx, t0)))
        ELSE Returns(w.fx, create_response(PyTrue,
                               Str("ticket_created_group_failed", <<ticket_id>>),
                               Dict("ticket", <<ticket_id, chat_id>>),
                               Clock(w.fx, t0)))

handle_submit_ticket(fx, env, t0, card, action_value) ==
    LET title == action_value.val.title
        user_id == card.user_id
        sel == parse_form_options(card.option)
    IN  IF SubmissionIncomplete(title, sel.service, sel.severity, user_id)
        THEN Returns(fx, create_response(PyFalse,
                             Str("please_complete",
                                 MissingFields(title, sel.service, sel.severity, user_id)),
                             None, t0))
        ELSE IF Raised(get_chat_config) THEN SubmitFailure(fx, t0, get_chat_config)
        ELSE SubmitValid(fx, env, t0, title, sel.service, sel.severity, user_id)

\* except Exception in handle_card_action.
CardFailure(fx, t0, what) ==
    Returns(fx, create_response(PyFalse, Str("card_action_failed", <<what>>), None, t0))

handle_card_action(fx, env, t0, action_data) ==
    IF ~IsDict(action_data) THEN CardFailure(fx, t0, "AttributeError")
    ELSE LET card == action_data.val.card
             action_value == parse_action_value(card.value)
         IN  IF ~IsDict(action_value) THEN CardFailure(fx, t0, "AttributeError")
             ELSE IF action_value.val.action = "submit_ticket"
                  THEN handle_submit_ticket(fx, env, t0, card, action_value)
             ELSE Returns(fx, create_response(PyFalse,
                                  Str("unknown_action", <<action_value.val.action>>),
                                  None, t0))

(***************************************************************************)
(* lambda_function.py.  An event is [path, httpMethod, body], body being   *)
(* the text of the request body.                                           *)
(***************************************************************************)
lambda_handler(fx, env, t0, event) ==
    LET body == safe_json_loads(event.body, None)
    IN  IF event.path = "/webhook" /\ event.httpMethod = "POST"
        THEN IF IsNone(body)
             THEN Returns(fx, create_response(PyInt(500),
                                  Dict("error", <<"internal_error", "TypeError">>), None, t0))
             ELSE IF IsDict(body) /\ body.val.challenge # ""
                  THEN Returns(fx, create_response(PyInt(200),
                                       Dict("challenge", <<body.val.challenge>>), None, t0))
             ELSE handle_feishu_event(fx, env, t0, body)
        ELSE IF event.path = "/card_action" /\ event.httpMethod = "POST"
             THEN handle_card_action(fx, env, t0, body)
        ELSE Returns(fx, create_response(PyInt(404), Dict("error", <<"Not Found">>), None, t0))

(***************************************************************************)
(* The external systems during one invocation.  send[k][i]: what the i-th  *)
(* attempt of the k-th send_message call meets; chat[i], store[i],         *)
(* case[i]: what the i-th attempt of create_chat, of the store operation   *)
(* and of create_support_case meets; order: the order in which a scan      *)
(* yields the items of the table.                                          *)
(***************************************************************************)
Env(send1, send2, chat, store, case, order) ==
    [send |-> <<send1, send2>>, chat |-> chat, store |-> store, case |-> case,
     order |-> order]

SendOutcomes == {"ok", "fail"}
ChatOutcomes == {"ok", "noid", "fail"}
AwsOutcomes == {"ok", "ClientError", "BotoCoreError"}

AllOk(n) == [i \in 1..n |-> "ok"]
SendSeqs == [1..2 -> SendOutcomes]
ChatSeqs == [1..2 -> ChatOutcomes]
CaseSeqs == [1..2 -> AwsOutcomes]
\* A store that fails with a client error for a while, or with a BotoCoreError.
StoreSeqs == [1..3 -> {"ok", "ClientError"}] \cup {<<"BotoCoreError", "ok", "ok">>}

\* Some order of the table, for an invocation that scans nothing.
AnyOrder == CHOOSE o \in Perms(table) : TRUE

QuietEnv == Env(AllOk(2), AllOk(2), AllOk(2), AllOk(3), AllOk(2), AnyOrder)

(***************************************************************************)
(* Requests.  A request is its entry point, its arguments and env.         *)
(***************************************************************************)
Request(kind, args, env) == [kind |-> kind, args |-> args, env |-> env]
NoReq == [kind |-> "none"]
NoOut == [kind |-> "none"]

ChatIds == {"", "oc_user"}
UserIds == {"", "u1"}
Titles == {<<>>, <<"x">>}

\* The texts of an event: every command with and without its argument, with
\* and without surrounding blanks, and texts that are no command.
Texts ==
    {<<>>, <<"x">>, <<Space>>,
     CreateKeyword, CreateKeyword \o <<Space>>, CreateKeyword \o <<Space, "x">>,
     CreateKeyword \o <<"x", Space>>, CreateKeyword \o ContentKeyword,
     ContentKeyword, ContentKeyword \o <<Space, Space>>, ContentKeyword \o <<Space, "x">>,
     ContentKeyword \o HelpKeyword,
     HelpKeyword, <<Space>> \o HelpKeyword \o <<Space>>, HelpKeyword \o <<"x">>,
     HistoryKeyword, HistoryKeyword \o <<Space>>, <<"x">> \o HistoryKeyword,
     <<"x">> \o CreateKeyword}

EventContents ==
    {JsonText(Dict("obj", [text |-> t])) : t \in Texts} \cup {JsonText(ListVal), InvalidJson}

NoEv == V1Event("", Absent, Absent)

HelpContent == JsonText(Dict("obj", [text |-> HelpKeyword]))

\* Payloads with an object left out or replaced by a value that is no dict.
MalformedEvs ==
    {V2Event("message", m, Sender("u1")) : m \in {Absent, Junk}}
    \cup {V2Event("message", Message("oc_user", HelpContent), x) : x \in {Absent, Junk}}
    \cup {V1Event("message", m, Sender("u1")) : m \in {Absent, Junk}}
    \cup {V1Event("message", Message("oc_user", HelpContent), x) : x \in {Absent, Junk}}
    \cup {V1Event("other", Message("oc_user", HelpContent), Sender("u1")),
          [V1Event("message", Message("oc_user", HelpContent), Sender("u1"))
              EXCEPT !.header = TRUE],
          [V2Event("message", Absent, Absent) EXCEPT !.event = Junk]}

Evs ==
    {NoEv}
    \cup {V2Event(t, Message(c, k), Sender(u)) :
             t \in {"message", "other"}, c \in ChatIds, k \in EventContents, u \in UserIds}
    \cup {V1Event("message", Message(c, k), Sender(u)) :
             c \in ChatIds, k \in EventContents, u \in UserIds}
    \cup MalformedEvs

ActionValues ==
    LET objs == {Dict("obj", f) :
                    f \in [action : {"submit_ticket", "other", ""}, title : Titles]}
    IN  objs \cup {JsonText(o) : o \in objs} \cup {JsonText(ListVal), InvalidJson, None}

OptionKeys == {<<"service">>, <<"severity">>, <<"x", "service">>}
OptionItems == [key : OptionKeys, value : {"", "ec2"}]
OptionSeqs == {<<>>} \cup {<<a>> : a \in OptionItems}
              \cup {<<a, b>> : a \in OptionItems, b \in OptionItems}

\* A dict has each key once.
Options ==
    {[cls |-> "list", kind |-> "options", val |-> o] : o \in OptionSeqs}
    \cup {Dict("options", o) :
             o \in {q \in OptionSeqs : Len(q) = 2 => q[1].key # q[2].key}}
    \cup {None}

NoCard == [value |-> None, option |-> None, user_id |-> ""]
Cards == [value : ActionValues, option : Options, user_id : UserIds]

Body(challenge, ev, card) == Dict("obj", [challenge |-> challenge, ev |-> ev, card |-> card])

EventBodies == {Body("", ev, NoCard) : ev \in Evs} \cup {ListVal, None}
CardBodies == {Body("", NoEv, card) : card \in Cards} \cup {ListVal, None}

\* The bodies that carry a challenge: alone, and beside an event.
ChallengeBodies ==
    {Body("c1", NoEv, NoCard),
     Body("c1", V2Event("message", Message("oc_user", HelpContent), Sender("u1")), NoCard)}

\* The command an event body is routed to.
RouteOf(body) ==
    LET p == parse_feishu_event(body)
    IN  IF p.chat_id = "" \/ p.text = <<>> \/ p.user_id = "" THEN "none"
        ELSE IF startswith(p.text, CreateKeyword) THEN "create"
        ELSE IF startswith(p.text, ContentKeyword)
             THEN IF strip(SliceFrom(p.text, 2)) # <<>> THEN "content" ELSE "prompt"
        ELSE IF strip(p.text) = HelpKeyword THEN "help"
        ELSE IF strip(p.text) = HistoryKeyword THEN "history"
        ELSE "none"

\* The behaviours of the external systems an invocation may meet: those of
\* the gateways its entry point calls, the others being quiet.
SendEnvs == {Env(s, AllOk(2), AllOk(2), AllOk(3), AllOk(2), AnyOrder) : s \in SendSeqs}

HistoryEnvs ==
    {Env(s1, s2, AllOk(2), st, AllOk(2), o) :
        s1 \in SendSeqs, s2 \in {AllOk(2), <<"fail", "fail">>},
        st \in {AllOk(3), <<"ClientError", "ClientError", "ok">>}, o \in Perms(table)}

ContentEnvs ==
    {Env(s1, s2, AllOk(2), AllOk(3), c, AnyOrder) :
        s1 \in SendSeqs, s2 \in {AllOk(2), <<"fail", "fail">>},
        c \in {AllOk(2), <<"ClientError", "ok">>, <<"ClientError", "ClientError">>}}

SubmitEnvs ==
    {Env(s, AllOk(2), c, st, AllOk(2), AnyOrder) :
        s \in {AllOk(2), <<"fail", "fail">>},
        c \in {AllOk(2), <<"fail", "ok">>, <<"fail", "fail">>},
        st \in {AllOk(3), <<"ClientError", "ClientError", "ok">>,
                <<"ClientError", "ClientError", "ClientError">>}}

EventEnvs(body) ==
    LET route == RouteOf(body)
    IN  IF route = "none" THEN {QuietEnv}
        ELSE IF route = "history" THEN HistoryEnvs
        ELSE IF route = "content" THEN ContentEnvs
        ELSE SendEnvs

\* A card interaction the submission of which passes the validation.
IsValidSubmission(body) ==
    /\ IsDict(body)
    /\ LET card == body.val.card
           action_value == parse_action_value(card.value)
           sel == parse_form_options(card.option)
       IN  /\ IsDict(action_value)
           /\ action_value.val.action = "submit_ticket"
           /\ ~SubmissionIncomplete(action_value.val.title, sel.service, sel.severity,
                                    card.user_id)

CardEnvs(body) == IF IsValidSubmission(body) THEN SubmitEnvs ELSE {QuietEnv}

\* The external systems have room for what an invocation may create: a
\* support case for a content command, a group and a ticket for a submission.
EventRoom(body) == RouteOf(body) = "content" => cases < MaxCases
CardRoom(body) ==
    IsValidSubmission(body) =>
        Len(groups) + 2 <= MaxGroups /\ Cardinality(table) < MaxTickets

LambdaEvents ==
    {[path |-> "/webhook", httpMethod |-> "POST", body |-> JsonText(b)] :
        b \in (EventBodies \ {None}) \cup ChallengeBodies}
    \cup {[path |-> "/card_action", httpMethod |-> "POST", body |-> JsonText(b)] :
             b \in (CardBodies \ {None})}
    \cup [path : {"/webhook", "/card_action", "/other"}, httpMethod : {"POST", "GET"},
          body : {InvalidJson, JsonText(Body("", NoEv, NoCard))}]

LambdaRoom(event) ==
    LET body == safe_json_loads(event.body, None)
    IN  IF event.httpMethod # "POST" \/ IsNone(body) THEN TRUE
        ELSE IF event.path = "/webhook" THEN EventRoom(body)
        ELSE IF event.path = "/card_action" THEN CardRoom(body)
        ELSE TRUE

LambdaEnvs(event) ==
    LET body == safe_json_loads(event.body, None)
    IN  IF event.httpMethod # "POST" \/ IsNone(body) THEN {QuietEnv}
        ELSE IF event.path = "/webhook"
             THEN IF IsDict(body) /\ body.val.challenge # "" THEN {QuietEnv}
                  ELSE EventEnvs(body)
        ELSE IF event.path = "/card_action" THEN CardEnvs(body)
        ELSE {QuietEnv}

SaveArgs ==
    [ticket_id : {NoTicketId, TicketId(now)}, user_id : UserIds, title : Titles,
     service : {"", "ec2"}, severity : {"low"}, chat_id : {""}, status : {""}]

UpdateArgs ==
    [ticket_id : {NoTicketId, TicketId(0)}, status : {"", "pending", "closed", "reopened"},
     aws_case_id : {""}]

CaseArgs ==
    [title : {<<>>, <<"sample_title">>}, service : {"ec2"}, severity : {"", "low"},
     content : Titles]

\* The table has room for the ticket.
HasRoom(ticket_id) ==
    \/ Cardinality(table) < MaxTickets
    \/ \E x \in table : x.ticket_id.v = ticket_id

\* A scan that answers returns the items in any order.
StoreEnvs ==
    {Env(AllOk(2), AllOk(2), AllOk(2), AllOk(3), AllOk(2), o) : o \in Perms(table)}
    \cup {Env(AllOk(2), AllOk(2), AllOk(2), st, AllOk(2), AnyOrder) : st \in StoreSeqs}

(***************************************************************************)
(* The state machine.                                                      *)
(***************************************************************************)
Init ==
    /\ table = {}
    /\ groups = <<>>
    /\ cases = 0
    /\ now = 0
    /\ phase = "idle"
    /\ req = NoReq
    /\ out = NoOut

\* A second passes between two invocations.
Tick ==
    /\ phase = "idle"
    /\ now < MaxClock
    /\ now' = now + 1
    /\ UNCHANGED <<table, groups, cases, phase, req, out>>

\* An invocation begins only when none is under way.
Idle == phase = "idle" /\ now <= MaxClock

Accept(kind, args, env) ==
    /\ req' = Request(kind, args, env)
    /\ phase' = "pending"
    /\ UNCHANGED <<table, groups, cases, now, out>>

\* A request reaches the Lambda entry point.
ReceiveLambda ==
    /\ Idle
    /\ \E e \in LambdaEvents : \E env \in LambdaEnvs(e) :
           LambdaRoom(e) /\ Accept("lambda_handler", [event |-> e], env)

\* A public handler of TicketHandler is called.
ReceiveHandler ==
    /\ Idle
    /\ \/ \E b \in EventBodies : \E env \in EventEnvs(b) :
              EventRoom(b) /\ Accept("handle_feishu_event", [body |-> b], env)
       \/ \E b \in CardBodies : \E env \in CardEnvs(b) :
              CardRoom(b) /\ Accept("handle_card_action", [action_data |-> b], env)
       \/ \E c \in ChatIds, t \in Titles, env \in SendEnvs :
              Accept("handle_create_ticket_command", [chat_id |-> c, title |-> t], env)
       \/ \E c \in ChatIds, u \in UserIds, env \in HistoryEnvs :
              Accept("handle_history_command", [chat_id |-> c, user_id |-> u], env)
       \/ \E c \in ChatIds, u \in UserIds, t \in Titles, env \in ContentEnvs :
              /\ cases < MaxCases
              /\ Accept("handle_content_command",
                        [chat_id |-> c, user_id |-> u, content |-> t], env)
       \/ \E c \in ChatIds, env \in SendEnvs :
              Accept("handle_help_command", [chat_id |-> c], env)

\* A gateway operation is called.
ReceiveGateway ==
    /\ Idle
    /\ \/ \E a \in SaveArgs, st \in StoreSeqs :
              /\ HasRoom(a.ticket_id)
              /\ Accept("save_ticket", a,
                        Env(AllOk(2), AllOk(2), AllOk(2), st, AllOk(2), AnyOrder))
       \/ \E u \in UserIds, l \in {0, 1}, env \in StoreEnvs :
              Accept("get_user_tickets", [user_id |-> u, limit |-> l], env)
       \/ \E a \in UpdateArgs, st \in StoreSeqs :
              /\ HasRoom(a.ticket_id)
              /\ Accept("update_ticket_status", a,
                        Env(AllOk(2), AllOk(2), AllOk(2), st, AllOk(2), AnyOrder))
       \/ \E c \in ChatIds, m \in {"", "text"}, t \in {None, Dict("text", Str("hello", <<>>))},
             env \in SendEnvs :
              Accept("send_message", [chat_id |-> c, msg_type |-> m, content |-> t], env)
       \/ \E n \in {<<>>, <<"AWS_ticket-", TicketId(now)>>}, c \in ChatSeqs :
              /\ Len(groups) + 2 <= MaxGroups
              /\ Accept("create_chat", [chat_name |-> n],
                        Env(AllOk(2), AllOk(2), c, AllOk(3), AllOk(2), AnyOrder))
       \/ \E a \in CaseArgs, c \in CaseSeqs :
              /\ cases < MaxCases
              /\ Accept("create_support_case", a,
                        Env(AllOk(2), AllOk(2), AllOk(2), AllOk(3), c, AnyOrder))

\* The entry point ran to completion: r is what it did.
Finish(r, val) ==
    /\ phase' = "done"
    /\ out' = [kind |-> req.kind, exc |-> r.exc, resp |-> r.resp, val |-> val,
               ops |-> r.fx.ops]
    /\ table' = r.fx.table
    /\ groups' = r.fx.groups
    /\ cases' = r.fx.cases
    /\ now' = Clock(r.fx, now)
    /\ UNCHANGED req

Pending(kind) == phase = "pending" /\ req.kind = kind

Start == Fx(table, groups, cases)

\* A gateway operation returns a value or raises; it has no response envelope.
FinishCall(c) == Finish([fx |-> c.fx, exc |-> c.exc, resp |-> NoResp], c.val)

LambdaHandler ==
    /\ Pending("lambda_handler")
    /\ Finish(lambda_handler(Start, req.env, now, req.args.event), None)

HandleFeishuEvent ==
    /\ Pending("handle_feishu_event")
    /\ Finish(handle_feishu_event(Start, req.env, now, req.args.body), None)

HandleCardAction ==
    /\ Pending("handle_card_action")
    /\ Finish(handle_card_action(Start, req.env, now, req.args.action_data), None)

HandleCreateTicketCommand ==
    /\ Pending("handle_create_ticket_command")
    /\ Finish(handle_create_ticket_command(Start, req.env, now, req.args.chat_id,
                                           req.args.title), None)

HandleHistoryCommand ==
    /\ Pending("handle_history_command")
    /\ Finish(handle_history_command(Start, req.env, now, req.args.chat_id,
                                     req.args.user_id), None)

HandleContentCommand ==
    /\ Pending("handle_content_command")
    /\ Finish(handle_content_command(Start, req.env, now, req.args.chat_id,
                                     req.args.user_id, req.args.content), None)

HandleHelpCommand ==
    /\ Pending("handle_help_command")
    /\ Finish(handle_help_command(Start, req.env, now, req.args.chat_id), None)

SaveTicket ==
    /\ Pending("save_ticket")
    /\ FinishCall(CallSaveTicket(Start, req.env, req.args, now))

GetUserTickets ==
    /\ Pending("get_user_tickets")
    /\ FinishCall(CallGetUserTickets(Start, req.env, req.args.user_id, req.args.limit))

UpdateTicketStatus ==
    /\ Pending("update_ticket_status")
    /\ FinishCall(CallUpdateTicketStatus(Start, req.env, req.args, now))

SendMessage ==
    /\ Pending("send_message")
    /\ FinishCall(CallSendMessage(Start, req.env, req.args.chat_id, req.args.msg_type,
                                  req.args.content))

CreateChat ==
    /\ Pending("create_chat")
    /\ FinishCall(CallCreateChat(Start, req.env, req.args.chat_name))

CreateSupportCase ==
    /\ Pending("create_support_case")
    /\ FinishCall(CallCreateSupportCase(Start, req.env, req.args))

\* The result is handed back to the caller.
Return ==
    /\ phase = "done"
    /\ phase' = "idle"
    /\ req' = NoReq
    /\ out' = NoOut
    /\ UNCHANGED <<table, groups, cases, now>>

\* The bot: the Lambda entry point and the public handlers.
Next ==
    \/ Tick
    \/ ReceiveLambda
    \/ ReceiveHandler
    \/ LambdaHandler
    \/ HandleFeishuEvent
    \/ HandleCardAction
    \/ HandleCreateTicketCommand
    \/ HandleHistoryCommand
    \/ HandleContentCommand
    \/ HandleHelpCommand
    \/ Return

Spec == Init /\ [][Next]_vars

\* The gateways: the operations of DynamoDBService, SupportService and
\* FeishuService called on their own.
NextGateway ==
    \/ Tick
    \/ ReceiveGateway
    \/ SaveTicket
    \/ GetUserTickets
    \/ UpdateTicketStatus
    \/ SendMessage
    \/ CreateChat
    \/ CreateSupportCase
    \/ Return

SpecGateway == Init /\ [][NextGateway]_vars

(***************************************************************************)
(* The history of a populated table: tickets are saved for two users, at   *)
(* any time and in any order, and the first user asks for the history.     *)
(***************************************************************************)
HistoryUsers == {"u1", "u2"}

\* The second user's tickets go under the first identifier.
StoredArgs ==
    {a \in [ticket_id : {TicketId(k) : k \in 0..(MaxTickets - 1)}, user_id : HistoryUsers,
            title : {<<"x">>}, service : {"ec2"}, severity : {"low"}, chat_id : {""},
            status : {""}] :
        a.user_id = "u2" => a.ticket_id = TicketId(0)}

\* A scan that answers, in any order, and one that fails.
ScanEnvs ==
    {Env(s, AllOk(2), AllOk(2), AllOk(3), AllOk(2), o) :
        s \in {AllOk(2), <<"fail", "ok">>, <<"fail", "fail">>}, o \in Perms(table)}
    \cup {Env(s, AllOk(2), AllOk(2), st, AllOk(2), AnyOrder) :
             s \in {AllOk(2), <<"fail", "fail">>},
             st \in {<<"ClientError", "ClientError", "ok">>,
                     <<"ClientError", "ClientError", "ClientError">>}}

ReceiveHistory ==
    /\ Idle
    /\ \/ \E a \in StoredArgs, st \in {AllOk(3), <<"ClientError", "ok", "ok">>} :
              /\ HasRoom(a.ticket_id)
              /\ Accept("save_ticket", a,
                        Env(AllOk(2), AllOk(2), AllOk(2), st, AllOk(2), AnyOrder))
       \/ \E env \in ScanEnvs :
              Accept("handle_history_command", [chat_id |-> "oc_user", user_id |-> "u1"],
                     env)

NextHistory ==
    \/ Tick
    \/ ReceiveHistory
    \/ SaveTicket
    \/ HandleHistoryCommand
    \/ Return

SpecHistory == Init /\ [][NextHistory]_vars

(***************************************************************************)
(* The two conversions on their own: a flat record is converted to the     *)
(* tagged format, a tagged item is converted back.                         *)
(***************************************************************************)
\* Strings (one that reads as a number among them), integers, booleans, null.
FlatValues ==
    {PyText(<<>>), PyText(<<"a">>), PyText(<<"7">>),
     PyInt(0), PyInt(7), PyInt(12), PyInt(0 - 3),
     PyBool(TRUE), PyBool(FALSE), PyNone}

FlatRecords == [{"k1", "k2"} -> FlatValues]

\* The items the conversion writes, and items with numbers of every kind of
\* text.
NumberTexts ==
    {<<"7">>, <<"-", "3">>, <<"1", ".", "5">>, <<"-", "0", ".", "5">>, <<"a">>, <<>>,
     <<"1", ".">>, <<"-">>}

TaggedValues ==
    {to_dynamodb_value(v) : v \in FlatValues}
    \cup {[tag |-> "N", v |-> c] : c \in NumberTexts}
    \cup {[tag |-> "BOOL", v |-> BoolText(b)] : b \in BOOLEAN}

TaggedItems == [{"k1"} -> TaggedValues]

ReceiveConvert ==
    /\ Idle
    /\ \/ \E d \in FlatRecords : Accept("convert_to_dynamodb_item", [data |-> d], QuietEnv)
       \/ \E i \in TaggedItems : Accept("convert_from_dynamodb_item", [item |-> i], QuietEnv)

ConvertToDynamodbItem ==
    /\ Pending("convert_to_dynamodb_item")
    /\ FinishCall([fx |-> Start, exc |-> NoExc, val |-> to_dynamodb_record(req.args.data)])

ConvertFromDynamodbItem ==
    /\ Pending("convert_from_dynamodb_item")
    /\ FinishCall([fx |-> Start, exc |-> NoExc, val |-> from_dynamodb_record(req.args.item)])

NextConvert ==
    \/ ReceiveConvert
    \/ ConvertToDynamodbItem
    \/ ConvertFromDynamodbItem
    \/ Return

SpecConvert == Init /\ [][NextConvert]_vars

(***************************************************************************)
(* The Lambda entry point alone.  The runtime runs the handler of every    *)
(* invocation it accepted: lambda_handler is sequential code that no other *)
(* invocation of the same container interleaves with.  LambdaHandler is    *)
(* the only step of NextLambda out of a pending invocation and it is       *)
(* enabled in every such state; the fairness condition names that step by  *)
(* what it does to phase.                                                  *)
(***************************************************************************)
RunsToCompletion == Pending("lambda_handler") /\ phase' = "done"

NextLambda ==
    \/ Tick
    \/ ReceiveLambda
    \/ LambdaHandler
    \/ Return

SpecLambda == Init /\ [][NextLambda]_vars /\ WF_phase(RunsToCompletion)

(***************************************************************************)
(* The store write of a card submission: save_ticket with the arguments    *)
(* _handle_submit_ticket passes, the identifier generated at some second   *)
(* up to the call, the four validated fields, the group id create_chat     *)
(* returned (or none) and no status.                                       *)
(***************************************************************************)
SubmitWriteArgs ==
    [ticket_id : {TicketId(n) : n \in 0..now}, user_id : {"u1", "u2"}, title : {<<"x">>},
     service : {"ec2"}, severity : {"low"}, chat_id : {"", "oc_1"}, status : {""}]

ReceiveSubmitWrite ==
    /\ Idle
    /\ \E a \in SubmitWriteArgs,
          st \in {AllOk(3), <<"ClientError", "ok", "ok">>, <<"BotoCoreError", "ok", "ok">>} :
           /\ HasRoom(a.ticket_id)
           /\ Accept("save_ticket", a,
                     Env(AllOk(2), AllOk(2), AllOk(2), st, AllOk(2), AnyOrder))

NextWrite ==
    \/ Tick
    \/ ReceiveSubmitWrite
    \/ SaveTicket
    \/ Return

SpecWrite == Init /\ [][NextWrite]_vars

(***************************************************************************)
(* The retry decorator on its own: a function whose i-th call does         *)
(* results[i] is wrapped with retry(max_attempts, delay, backoff,          *)
(* exceptions) and called once; and send_message, which is so wrapped.     *)
(***************************************************************************)
MaxAttempts == 3

\* What a call of the wrapped function may do: return one of two values,
\* raise one of two exceptions the AWS operations retry on, or raise another.
WrappedCalls ==
    {Attempt(NoExc, Dict("first", <<>>), TRUE, TRUE),
     Attempt(NoExc, Dict("second", <<>>), TRUE, TRUE),
     Attempt(Exc("ClientError", <<"a">>), None, TRUE, FALSE),
     Attempt(Exc("BotoCoreError", <<"b">>), None, TRUE, FALSE),
     Attempt(Exc("ValueError", <<"c">>), None, TRUE, FALSE)}

RetryArgs ==
    UNION {[results : [1..n -> WrappedCalls], max_attempts : {n}, delay : {1, 2},
            backoff : {1, 2, 3}, exceptions : {FeishuRetryExceptions, StoreRetryExceptions}] :
           n \in 1..MaxAttempts}

ReceiveRetry ==
    /\ Idle
    /\ \/ \E a \in RetryArgs : Accept("retry", a, QuietEnv)
       \/ \E c \in ChatIds, env \in SendEnvs :
              Accept("send_message",
                     [chat_id |-> c, msg_type |-> "text",
                      content |-> Dict("text", Str("hello", <<>>))], env)

\* The wrapper runs: r is what the loop did.
Retry ==
    /\ Pending("retry")
    /\ LET a == req.args
           r == retry(a.results, a.max_attempts, a.delay, a.backoff, a.exceptions)
           d == [op |-> "retry", runs |-> r.runs, sleeps |-> r.sleeps, exc |-> r.exc,
                 val |-> r.val, requests |-> r.runs, ok |-> ~Raised(r.exc)]
       IN  FinishCall([fx |-> Called(Start, d, "", None), exc |-> r.exc, val |-> r.val])

NextRetry ==
    \/ ReceiveRetry
    \/ Retry
    \/ SendMessage
    \/ Return

SpecRetry == Init /\ [][NextRetry]_vars

(***************************************************************************)
(* The history of a store that holds about as many tickets as a history    *)
(* may list: the store was filled by save_ticket, one ticket a second, and *)
(* a user asks for the history.                                            *)
(***************************************************************************)
\* The record save_ticket wrote at second k for the user.
StoredTicket(k, user) ==
    convert_to_dynamodb_item(
        save_ticket_attempt([ticket_id |-> TicketId(k), user_id |-> user, title |-> <<"x">>,
                             service |-> "ec2", severity |-> "low", chat_id |-> "",
                             status |-> ""], "ok", k).val)

\* n tickets, every m-th of them the second user's.
FullStore(n, m) ==
    {StoredTicket(k, IF k % m = 0 THEN "u2" ELSE "u1") : k \in 1..n}

StoreSizes == (MAX_HISTORY_RECORDS - 1)..(MAX_HISTORY_RECORDS + 2)

InitFull ==
    /\ \E n \in StoreSizes, m \in {3, MAX_HISTORY_RECORDS + 2} :
           table = FullStore(n, m) /\ now = n
    /\ groups = <<>>
    /\ cases = 0
    /\ phase = "idle"
    /\ req = NoReq
    /\ out = NoOut

\* The items of the table, oldest first.
OldestFirst ==
    [i \in 1..Cardinality(table) |-> CHOOSE x \in table : x.ticket_id.v = TicketId(i)]

\* The orders in which the scan yields the items: from any item on, in the
\* order of creation or against it.
FullScanOrders ==
    LET n == Cardinality(table)
    IN  {[i \in 1..n |-> OldestFirst[((i + r - 1) % n) + 1]] : r \in 0..(n - 1)}
        \cup {[i \in 1..n |-> OldestFirst[n - ((i + r - 1) % n)]] : r \in 0..(n - 1)}

ReceiveFullHistory ==
    /\ phase = "idle"
    /\ now <= MAX_HISTORY_RECORDS + 2 + MaxClock
    /\ \E u \in HistoryUsers, o \in FullScanOrders,
          s \in {AllOk(2), <<"fail", "ok">>, <<"fail", "fail">>} :
           Accept("handle_history_command", [chat_id |-> "oc_user", user_id |-> u],
                  Env(s, AllOk(2), AllOk(2), AllOk(3), AllOk(2), o))

NextFullHistory ==
    \/ ReceiveFullHistory
    \/ HandleHistoryCommand
    \/ Return

SpecFullHistory == InitFull /\ [][NextFullHistory]_vars

(***************************************************************************)
(* Status updates on a store of tickets written by submissions: tickets    *)
(* are saved with and without a group, then update_ticket_status is called *)
(* for a stored or an unknown identifier, with and without a case id.      *)
(***************************************************************************)
StatusUpdateArgs ==
    [ticket_id : {NoTicketId, TicketId(0), TicketId(1)}, status : {"", "closed"},
     aws_case_id : {"", "case-1"}]

ReceiveStatusUpdate ==
    /\ Idle
    /\ \/ \E a \in SubmitWriteArgs :
              /\ a.ticket_id = TicketId(now)
              /\ a.user_id = "u1"
              /\ HasRoom(a.ticket_id)
              /\ Accept("save_ticket", a, QuietEnv)
       \/ \E a \in StatusUpdateArgs,
             st \in {AllOk(3), <<"ClientError", "ok", "ok">>} :
              /\ HasRoom(a.ticket_id)
              /\ Accept("update_ticket_status", a,
                        Env(AllOk(2), AllOk(2), AllOk(2), st, AllOk(2), AnyOrder))

NextStatusUpdate ==
    \/ Tick
    \/ ReceiveStatusUpdate
    \/ SaveTicket
    \/ UpdateTicketStatus
    \/ Return

SpecStatusUpdate == Init /\ [][NextStatusUpdate]_vars

(***************************************************************************)
(* Properties.  While an invocation is done and not yet returned, req is   *)
(* what was asked and out is what came of it.                              *)
(***************************************************************************)
Done(kind) == phase = "done" /\ out.kind = kind

\* The card interaction r asks to submit a ticket.
IsSubmission(r) ==
    /\ r.kind = "handle_card_action"
    /\ IsDict(r.args.action_data)
    /\ IsDict(parse_action_value(r.args.action_data.val.card.value))
    /\ parse_action_value(r.args.action_data.val.card.value).val.action = "submit_ticket"

\* The four fields of the submission r.
Submitted(r) ==
    LET card == r.args.action_data.val.card
    IN  [title |-> parse_action_value(card.value).val.title,
         service |-> parse_form_options(card.option).service,
         severity |-> parse_form_options(card.option).severity,
         user_id |-> card.user_id]

\* The labels of the empty fields of the submission r, in the fixed order.
EmptyFields(r) ==
    LET f == Submitted(r)
    IN  SelectSeq(<<"title", "service_type", "severity", "user_id">>,
                  LAMBDA l : IF l = "title" THEN f.title = <<>>
                             ELSE IF l = "service_type" THEN f.service = ""
                             ELSE IF l = "severity" THEN f.severity = ""
                             ELSE f.user_id = "")

IsValidSubmit(r) == IsSubmission(r) /\ EmptyFields(r) = <<>>

\* C1: a submission with at least one of title, service, severity and user
\* id empty is answered with success=false and a message listing exactly the
\* empty fields in the order title, service type, severity, user id; the
\* invocation calls no gateway: no group, no ticket, no chat message.
C1_IncompleteSubmissionRejected ==
    [][(HandleCardAction /\ IsSubmission(req) /\ EmptyFields(req) # <<>>)
        => /\ ~Raised(out'.exc)
           /\ out'.resp.success = PyFalse
           /\ IsStr(out'.resp.message)
           /\ out'.resp.message.kind = "please_complete"
           /\ out'.resp.message.val = EmptyFields(req)
           /\ out'.ops = <<>>
           /\ table' = table
           /\ groups' = groups]_vars

\* A submission with two or more fields empty was rejected.
C1_Witness ==
    /\ Done("handle_card_action")
    /\ IsSubmission(req)
    /\ Len(EmptyFields(req)) >= 2
    /\ out.resp.success = PyFalse
    /\ out.resp.message.kind = "please_complete"

\* C2: a submission with the four fields filled in, whose store write
\* succeeds, is answered with success=true and data carrying the ticket
\* identifier TICKET-<digits>, whatever the other gateways do.
C2_ValidSubmissionSucceeds ==
    (Done("handle_card_action") /\ IsValidSubmit(req) /\ req.env.store = AllOk(3))
        => /\ ~Raised(out.exc)
           /\ out.resp.success = PyTrue
           /\ out.resp.data.cls = "dict"
           /\ out.resp.data.kind = "ticket"
           /\ \E n \in 0..(now + MaxClock) : out.resp.data.val[1] = TicketId(n)

\* C3: a valid submission every create_chat attempt of which fails, the
\* store being healthy, is answered with success=true and the message that
\* the group was not created; the ticket is stored without a chat_id.
C3_GroupFailureStillCreates ==
    (/\ Done("handle_card_action")
     /\ IsValidSubmit(req)
     /\ req.env.chat = <<"fail", "fail">>
     /\ req.env.store = AllOk(3))
        => /\ ~Raised(out.exc)
           /\ out.resp.success = PyTrue
           /\ out.resp.message.kind = "ticket_created_group_failed"
           /\ \E x \in table : x.user_id.v = req.args.action_data.val.card.user_id
                               /\ "chat_id" \notin DOMAIN x

StoreOperations == {"save_ticket", "get_user_tickets", "update_ticket_status"}

GatewayOperations ==
    StoreOperations \cup {"create_support_case", "send_message", "create_chat"}

\* The gateway operation that was called is the one entry of out.ops.
TheCall == out.ops[1]

\* C4: a store operation whose client call fails with a client error on
\* attempts 1 and 2 and would succeed on attempt 3 runs three times and
\* returns its result; no failure reaches the caller.
C4_StoreRetriesToSuccess ==
    (/\ phase = "done"
     /\ out.kind \in StoreOperations
     /\ req.env.store = <<"ClientError", "ClientError", "ok">>
     /\ out.exc.cls # "ValidationError")
        => /\ TheCall.runs = 3
           /\ TheCall.ok
           /\ ~Raised(out.exc)

\* C5: a gateway operation that fails its validation runs its body once and
\* sleeps before no retry: the error surfaces at once.
C5_ValidationNeverRetried ==
    (/\ phase = "done"
     /\ out.kind \in GatewayOperations
     /\ out.exc.cls = "ValidationError")
        => /\ TheCall.runs = 1
           /\ TheCall.sleeps = <<>>

PublicHandlers ==
    {"handle_create_ticket_command", "handle_card_action", "handle_history_command",
     "handle_content_command", "handle_help_command", "handle_feishu_event"}

\* C6: a public handler of TicketHandler returns a response envelope and
\* never raises, whatever its arguments and whatever the gateways do.
C6_HandlersNeverRaise ==
    (phase = "done" /\ out.kind \in PublicHandlers) => ~Raised(out.exc)

\* C7: every response of lambda_handler has a boolean success and a string
\* message.
C7_EnvelopeTyped ==
    Done("lambda_handler")
        => /\ ~Raised(out.exc)
           /\ IsBool(out.resp.success)
           /\ IsStr(out.resp.message)

\* The entry points a user triggers a command through.
IsUserCommand(r) ==
    \/ r.kind \in {"handle_create_ticket_command", "handle_history_command",
                   "handle_content_command", "handle_help_command"}
    \/ IsSubmission(r)

\* C8: a user's command that ends in a failure response sent, or tried to
\* send, a chat message during the invocation.
C8_FailureReachesChat ==
    (/\ phase = "done"
     /\ IsUserCommand(req)
     /\ ~Raised(out.exc)
     /\ out.resp.success = PyFalse)
        => \E i \in DOMAIN out.ops : out.ops[i].op = "send_message"

\* The stored tickets of the user who asks for the history.
UserItems ==
    {x \in table : "user_id" \in DOMAIN x /\ x.user_id.v = req.args.user_id}

\* The creation timestamp of a stored ticket.
StampOf(ticket_id) ==
    ParseInt((CHOOSE x \in table : x.ticket_id.v = ticket_id).created_at.v)

DistinctStamps ==
    \A x, y \in UserItems : x # y => x.created_at.v # y.created_at.v

\* The send_message calls of the invocation, and those of a given text.
Sends == {i \in DOMAIN out.ops : out.ops[i].op = "send_message"}
SendsOf(kind) == {i \in Sends : out.ops[i].content.val.kind = kind}
Delivered == {i \in Sends : out.ops[i].ok}

\* The ticket blocks of a history rendering.
Blocks(i) == out.ops[i].content.val.val

Descending(b) ==
    \A j, k \in DOMAIN b : j < k => StampOf(b[j].ticket_id) > StampOf(b[k].ticket_id)

NoRecordsAnswer ==
    /\ ~Raised(out.exc)
    /\ Cardinality(Sends) = 1
    /\ Delivered = Sends
    /\ SendsOf("no_records") = Sends
    /\ SendsOf("history") = {}
    /\ out.resp.success = PyTrue
    /\ out.resp.message = Str("no_records", <<>>)

EventOf(r) == r.args.body.val.ev

\* The payload has one of the two shapes, with its message and sender objects.
CarriesV2(ev) ==
    /\ ev.header
    /\ IsDict(ev.event)
    /\ ev.event.val.type = "message"
    /\ IsDict(ev.event.val.message)
    /\ IsDict(ev.event.val.sender)
CarriesV1(ev) ==
    ~ev.header /\ ev.type = "message" /\ IsDict(ev.message) /\ IsDict(ev.sender_id)

\* The payload of the other shape that carries the same three values.
TwinEvent(ev) ==
    IF ev.header THEN V1Event("message", ev.event.val.message, ev.event.val.sender)
    ELSE V2Event("message", ev.message, ev.sender_id)

\* C11: a 2.0 payload and the 1.0 payload carrying the same chat id, text
\* and user id are parsed to the same triple, and handle_feishu_event does
\* the same for both: same gateway calls, same outcome.
C11_ShapesParseAlike ==
    [][(/\ HandleFeishuEvent
        /\ IsDict(req.args.body)
        /\ (CarriesV2(EventOf(req)) \/ CarriesV1(EventOf(req))))
        => LET twin == Body("", TwinEvent(EventOf(req)), NoCard)
               r == handle_feishu_event(Start, req.env, now, twin)
           IN  /\ parse_feishu_event(twin) = parse_feishu_event(req.args.body)
               /\ out'.exc = r.exc
               /\ out'.resp = r.resp
               /\ out'.ops = r.fx.ops]_vars

\* A 1.0 payload with the three values was parsed and its command answered.
C11_Witness ==
    /\ Done("handle_feishu_event")
    /\ IsDict(req.args.body)
    /\ CarriesV1(EventOf(req))
    /\ parse_feishu_event(req.args.body) = Triple("oc_user", HelpKeyword, "u1")
    /\ Len(out.ops) = 1
    /\ out.ops[1].ok

\* The content of a message object is the JSON text of an object.
HasObjectContent(message) ==
    IsDict(message) /\ IsDict(safe_json_loads(message.val.content, None))

\* The payload has neither shape, the wrong event type, no message or sender
\* object, or a message content that is not the JSON text of an object.
Malformed(body) ==
    \/ ~IsDict(body)
    \/ LET ev == body.val.ev
       IN  /\ ~(CarriesV2(ev) /\ HasObjectContent(ev.event.val.message))
           /\ ~(CarriesV1(ev) /\ HasObjectContent(ev.message))

\* C12: a malformed or unrecognized payload is parsed to the empty triple:
\* chat id, text and user id are all empty.
C12_MalformedParsesEmpty ==
    (Done("handle_feishu_event") /\ Malformed(req.args.body))
        => parse_feishu_event(req.args.body) = Triple("", <<>>, "")

\* The request is an event delivery: POST /webhook.
IsEventDelivery(r) ==
    /\ r.kind = "lambda_handler"
    /\ r.args.event.path = "/webhook"
    /\ r.args.event.httpMethod = "POST"

\* The decoded body of a request to lambda_handler.
BodyOf(r) == safe_json_loads(r.args.event.body, None)

\* C13: an event delivery whose body is not valid JSON, or is JSON that is
\* not an object, is acknowledged, not answered with an error, and no
\* gateway is called.
C13_BadBodyAcknowledged ==
    (/\ phase = "done"
     /\ IsEventDelivery(req)
     /\ ~IsDict(BodyOf(req)))
        => /\ ~Raised(out.exc)
           /\ out.resp.message.kind # "error"
           /\ out.ops = <<>>

\* C14: when the chat id, the user id or the text of the parsed event is
\* empty, handle_feishu_event calls no gateway (no message, no store access,
\* no support case), changes nothing and returns the acknowledgement.
C14_IncompleteEventIsNoOp ==
    [][(/\ HandleFeishuEvent
        /\ LET p == parse_feishu_event(req.args.body)
           IN  p.chat_id = "" \/ p.user_id = "" \/ p.text = <<>>)
        => /\ ~Raised(out'.exc)
           /\ out'.ops = <<>>
           /\ Truthy(out'.resp.success)
           /\ out'.resp.message.kind = "success_true_message"
           /\ UNCHANGED <<table, groups, cases, now>>]_vars

\* A help command without a user id was acknowledged and not run.
C14_Witness ==
    /\ Done("handle_feishu_event")
    /\ parse_feishu_event(req.args.body) = Triple("oc_user", HelpKeyword, "")
    /\ out.ops = <<>>
    /\ out.resp.message.kind = "success_true_message"

\* C15: an event delivery whose body has a challenge is answered with the
\* structure {"challenge": v}, v being the challenge received, without any
\* gateway call, also when the body holds an event.
C15_ChallengeEchoed ==
    (/\ phase = "done"
     /\ IsEventDelivery(req)
     /\ IsDict(BodyOf(req))
     /\ BodyOf(req).val.challenge # "")
        => /\ ~Raised(out.exc)
           /\ out.ops = <<>>
           /\ out.resp = Dict("challenge", <<BodyOf(req).val.challenge>>)

\* The command behaviours that a sequence of gateway calls shows: the card or
\* the title prompt (create), the support case or the content prompt
\* (content), the help text (help), the query of the store (history).
Behaviours(ops) ==
    LET text(e, kinds) == /\ e.op = "send_message"
                          /\ e.content.kind = "text"
                          /\ e.content.val.kind \in kinds
        seen(t(_)) == \E i \in DOMAIN ops : t(ops[i])
        create(e) == \/ e.op = "send_message" /\ e.content.kind = "card"
                     \/ text(e, {"prompt_title"})
        content(e) == e.op = "create_support_case" \/ text(e, {"prompt_content"})
        help(e) == text(e, {"help_text"})
        history(e) == e.op = "get_user_tickets"
    IN  (IF seen(create) THEN {"create"} ELSE {})
        \cup (IF seen(content) THEN {"content"} ELSE {})
        \cup (IF seen(help) THEN {"help"} ELSE {})
        \cup (IF seen(history) THEN {"history"} ELSE {})

\* The first command whose test matches the text, in the order create-prefix,
\* content-prefix, help, history; no command when none matches.
FirstMatch(text) ==
    LET trimmed == strip(text)
    IN  IF Len(text) >= 3 /\ SubSeq(text, 1, 3) = CreateKeyword THEN {"create"}
        ELSE IF Len(text) >= 2 /\ SubSeq(text, 1, 2) = ContentKeyword THEN {"content"}
        ELSE IF trimmed = HelpKeyword THEN {"help"}
        ELSE IF trimmed = HistoryKeyword THEN {"history"}
        ELSE {}

\* The parsed event has a chat id, a user id and a text.
Complete(p) == p.chat_id # "" /\ p.user_id # "" /\ p.text # <<>>

\* C16: an event with a chat id, a user id and a text runs at most one of the
\* four command behaviours, the first whose test matches in the order
\* create-prefix, content-prefix, help, history; in particular a text that
\* starts with the create keyword runs none of content, help and history.
C16_FirstMatchingCommandOnly ==
    [][(/\ HandleFeishuEvent
        /\ Complete(parse_feishu_event(req.args.body)))
        => Behaviours(out'.ops) = FirstMatch(parse_feishu_event(req.args.body).text)]_vars

\* A text that starts with the create keyword and goes on with the content
\* keyword ran the create behaviour alone.
C16_Witness ==
    /\ Done("handle_feishu_event")
    /\ Complete(parse_feishu_event(req.args.body))
    /\ parse_feishu_event(req.args.body).text = CreateKeyword \o ContentKeyword
    /\ Behaviours(out.ops) = {"create"}

\* The text is a create (respectively content) keyword with nothing but
\* blanks after it; the value is the prompt that answers it, "" otherwise.
PromptFor(text) ==
    IF startswith(text, CreateKeyword)
    THEN IF strip(SliceFrom(text, Len(CreateKeyword))) = <<>> THEN "prompt_title" ELSE ""
    ELSE IF startswith(text, ContentKeyword)
    THEN IF strip(SliceFrom(text, Len(ContentKeyword))) = <<>> THEN "prompt_content" ELSE ""
    ELSE ""

\* C17: a create (respectively content) command without its argument sends
\* exactly one plain-text prompt to the chat of the event, sends no card,
\* creates no support case, writes no ticket, and its response reports
\* success.
C17_EmptyArgumentPrompts ==
    (/\ Done("handle_feishu_event")
     /\ Complete(parse_feishu_event(req.args.body))
     /\ PromptFor(parse_feishu_event(req.args.body).text) # "")
        => /\ ~Raised(out.exc)
           /\ Len(out.ops) = 1
           /\ out.ops[1].op = "send_message"
           /\ out.ops[1].chat = parse_feishu_event(req.args.body).chat_id
           /\ out.ops[1].content =
                  Dict("text", Str(PromptFor(parse_feishu_event(req.args.body).text), <<>>))
           /\ out.resp.success = PyTrue

\* C18: an event with a chat id, a user id and a text that is none of the four
\* commands makes no gateway call and is answered with success true and an
\* empty message.
C18_UnmatchedTextAcknowledged ==
    (/\ Done("handle_feishu_event")
     /\ Complete(parse_feishu_event(req.args.body))
     /\ FirstMatch(parse_feishu_event(req.args.body).text) = {})
        => /\ ~Raised(out.exc)
           /\ out.ops = <<>>
           /\ out.resp.success = PyTrue
           /\ IsStr(out.resp.message)
           /\ out.resp.message = Str("", <<>>)

\* The card of a card-action request.
CardOf(r) == r.args.action_data.val.card

\* The value is a mapping of action fields, or the JSON text of one.
IsMappingOrItsText(value) ==
    \/ IsDict(value)
    \/ IsStr(value) /\ value.kind = "json" /\ IsDict(value.val)

\* The JSON text of a mapping, and the mapping of a JSON text.
TwinValue(value) == IF IsDict(value) THEN JsonText(value) ELSE value.val

\* C19: a card action whose value is the JSON text of a mapping and the same
\* card action whose value is the mapping itself resolve to the same action
\* type and title, and handle_card_action makes the same gateway calls and
\* returns the same outcome for both.
C19_ValueTextOrMapping ==
    [][(/\ HandleCardAction
        /\ IsDict(req.args.action_data)
        /\ IsMappingOrItsText(CardOf(req).value))
        => LET twin == Body("", NoEv, [CardOf(req) EXCEPT !.value = TwinValue(@)])
               r == handle_card_action(Start, req.env, now, twin)
           IN  /\ IsStr(CardOf(req).value) # IsStr(twin.val.card.value)
               /\ parse_action_value(twin.val.card.value)
                      = parse_action_value(CardOf(req).value)
               /\ out'.exc = r.exc
               /\ out'.resp = r.resp
               /\ out'.ops = r.fx.ops]_vars

\* A submission whose value came as JSON text was resolved and answered.
C19_Witness ==
    /\ Done("handle_card_action")
    /\ IsDict(req.args.action_data)
    /\ IsStr(CardOf(req).value)
    /\ IsMappingOrItsText(CardOf(req).value)
    /\ parse_action_value(CardOf(req).value).val.action = "submit_ticket"
    /\ parse_action_value(CardOf(req).value).val.title # <<>>
    /\ ~Raised(out.exc)

\* The value of the first entry of a sequence of options that has the key
\* token; "" when no entry has it.
RECURSIVE FirstValue(_, _)
FirstValue(items, token) ==
    IF items = <<>> THEN ""
    ELSE IF Head(items).key = <<token>> THEN Head(items).value
    ELSE FirstValue(Tail(items), token)

\* C20: for options that arrive as a sequence, _parse_form_options returns
\* for each field (service, severity) the value of the first entry that
\* matches the field; later matching entries do not override it.
C20_FirstOptionWins ==
    (/\ phase = "done"
     /\ IsSubmission(req)
     /\ CardOf(req).option.cls = "list")
        => /\ parse_form_options(CardOf(req).option).service
                  = FirstValue(CardOf(req).option.val, "service")
           /\ parse_form_options(CardOf(req).option).severity
                  = FirstValue(CardOf(req).option.val, "severity")

\* The values of the entries whose key contains the token.
ValuesFor(items, token) ==
    {items[i].value : i \in {j \in DOMAIN items : KeyContains(items[j].key, token)}}

\* The options of the card are a sequence of objects or a mapping.
HasOptionEntries(option) == option.cls = "list" \/ IsDict(option)

\* C21: in both option shapes a form field whose key contains the token
\* 'service' (respectively 'severity') is taken as the service (respectively
\* severity) selection, also when the key is longer than the token, so that
\* options with a service-keyed and a severity-keyed entry resolve both
\* fields.
C21_KeyMatchedBySubstring ==
    (/\ phase = "done"
     /\ IsSubmission(req)
     /\ HasOptionEntries(CardOf(req).option))
        => LET items == CardOf(req).option.val
               sel == parse_form_options(CardOf(req).option)
           IN  /\ ValuesFor(items, "service") # {}
                      => sel.service \in ValuesFor(items, "service")
               /\ ValuesFor(items, "severity") # {}
                      => sel.severity \in ValuesFor(items, "severity")

\* The value of the card is text that does not decode to a JSON mapping.
IsUndecodableText(value) == IsStr(value) /\ ~IsDict(safe_json_loads(value, None))

\* C22: a card action whose value is text that is not the JSON text of a
\* mapping (invalid JSON, or JSON of another kind) is handled as an empty
\* action: handle_card_action does not raise, calls no gateway and returns
\* the unknown-action failure it returns for an empty mapping.
C22_UndecodableValueIsEmptyAction ==
    (/\ Done("handle_card_action")
     /\ IsDict(req.args.action_data)
     /\ IsUndecodableText(CardOf(req).value))
        => LET empty == Body("", NoEv, [CardOf(req) EXCEPT !.value = EmptyAction])
           IN  /\ ~Raised(out.exc)
               /\ out.ops = <<>>
               /\ out.resp.success = handle_card_action(Start, req.env, now, empty).resp.success
               /\ out.resp.message = handle_card_action(Start, req.env, now, empty).resp.message

\* Every stored record was written by save_ticket.
AllCreated == \A x \in table : "created_at" \in DOMAIN x

Lasting(x) ==
    [f \in DOMAIN x \ {"updated_at", "aws_case_id"} |-> x[f]]

\* Record x of the store is in the store tbl with its lasting fields.
Kept(x, tbl) == \E y \in tbl : Lasting(y) = Lasting(x)

Lifecycle == <<"pending", "in_progress", "closed">>
Stage(status) == CHOOSE i \in DOMAIN Lifecycle : Lifecycle[i] = status
InLifecycle(status) == \E i \in DOMAIN Lifecycle : Lifecycle[i] = status

\* C25: update_ticket_status moves the status of a stored ticket forward in
\* the lifecycle pending, in-progress, closed: it never takes a ticket back
\* to an earlier status and never writes a status outside the lifecycle.
C25_StatusMovesForward ==
    [][UpdateTicketStatus
        => \A y \in table' :
              /\ InLifecycle(y.status.v)
              /\ \A x \in table :
                    (x.ticket_id = y.ticket_id /\ InLifecycle(x.status.v))
                        => Stage(x.status.v) <= Stage(y.status.v)]_vars

\* The operations of the given name among the gateway calls of the invocation.
CallsOf(op) == {i \in DOMAIN out.ops : out.ops[i].op = op}

\* C26: a card submission during which create_chat succeeds and the store
\* write then fails ends in a failure response; no record is stored for the
\* generated identifier, no message is sent into the new group, and the
\* group stays: nothing undoes its creation.
C26_GroupStaysAfterFailedWrite ==
    (/\ Done("handle_card_action")
     /\ IsValidSubmit(req)
     /\ req.env.chat[1] = "ok"
     /\ \A i \in DOMAIN req.env.store : req.env.store[i] # "ok")
        => /\ ~Raised(out.exc)
           /\ ~Truthy(out.resp.success)
           /\ \E i \in CallsOf("create_chat") : out.ops[i].ok
           /\ \E i \in CallsOf("save_ticket") : ~out.ops[i].ok
           /\ CallsOf("send_message") = {}
           /\ groups # <<>>
           /\ \A x \in table : x.ticket_id.v \notin {groups[i][2] : i \in DOMAIN groups}

\* C27: a content command with a content requests a support case and tells
\* the chat: when the case is created, one message with the case identifier
\* is sent to the chat of the command and the response has success true;
\* when it is not, one message with the error text is sent and the response
\* has success false.
C27_ContentCommandNotifies ==
    (/\ Done("handle_content_command")
     /\ req.args.chat_id # ""
     /\ req.args.user_id # ""
     /\ req.args.content # <<>>)
        => /\ ~Raised(out.exc)
           /\ CallsOf("create_support_case") = {1}
           /\ Cardinality(CallsOf("send_message")) = 1
           /\ \A i \in CallsOf("send_message") :
                 /\ out.ops[i].ok
                 /\ out.ops[i].chat = req.args.chat_id
                 /\ out.ops[i].content.val.kind =
                        (IF out.ops[1].ok THEN "case_created" ELSE "create_case_failed")
           /\ out.resp.success = (IF out.ops[1].ok THEN PyTrue ELSE PyFalse)

\* The attempts a gateway operation may make within one call.
Budget(op) == IF op \in StoreOperations THEN 3 ELSE 2

\* C28: one call of a gateway operation issues its external request at most
\* three times for a store operation and at most two times for send_message,
\* create_chat and create_support_case; when its last attempt fails the error
\* reaches the caller and nothing more is tried.
C28_RetryBudget ==
    (phase = "done" /\ out.kind \in GatewayOperations)
        => /\ Len(out.ops) = 1
           /\ TheCall.op = out.kind
           /\ TheCall.runs <= Budget(out.kind)
           /\ TheCall.requests <= TheCall.runs
           /\ Len(TheCall.sleeps) = TheCall.runs - 1
           /\ ~TheCall.ok => Raised(out.exc)

\* A send_message used its whole budget and failed.
C28_Witness ==
    /\ Done("send_message")
    /\ TheCall.requests = 2
    /\ ~TheCall.ok
    /\ Raised(out.exc)

\* The chat and the title of a create command with a title: handed to
\* handle_create_ticket_command, or typed in a message event.
IsCreateCommand(r) ==
    \/ /\ r.kind = "handle_create_ticket_command"
       /\ r.args.chat_id # ""
       /\ r.args.title # <<>>
    \/ /\ r.kind = "handle_feishu_event"
       /\ Complete(parse_feishu_event(r.args.body))
       /\ FirstMatch(parse_feishu_event(r.args.body).text) = {"create"}
       /\ strip(SliceFrom(parse_feishu_event(r.args.body).text, Len(CreateKeyword))) # <<>>

CreateChatId(r) ==
    IF r.kind = "handle_create_ticket_command" THEN r.args.chat_id
    ELSE parse_feishu_event(r.args.body).chat_id

CreateTitle(r) ==
    IF r.kind = "handle_create_ticket_command" THEN r.args.title
    ELSE strip(SliceFrom(parse_feishu_event(r.args.body).text, Len(CreateKeyword)))

\* C29: a create command with a title sends exactly one selection card, with
\* that title, to the chat of the command and does nothing else: no store
\* write, no group, no support case; no ticket record comes from it.
C29_CreateCommandSendsCardOnly ==
    [][((HandleCreateTicketCommand \/ HandleFeishuEvent) /\ IsCreateCommand(req))
        => /\ ~Raised(out'.exc)
           /\ Len(out'.ops) = 1
           /\ out'.ops[1].op = "send_message"
           /\ out'.ops[1].chat = CreateChatId(req)
           /\ out'.ops[1].content = Dict("card", CreateTitle(req))
           /\ UNCHANGED <<table, groups, cases>>]_vars

\* The card of a create command typed in a chat was delivered.
C29_Witness ==
    /\ Done("handle_feishu_event")
    /\ IsCreateCommand(req)
    /\ CreateTitle(req) = <<"x">>
    /\ Len(out.ops) = 1
    /\ out.ops[1].ok
    /\ out.ops[1].content = Dict("card", <<"x">>)
    /\ table = {} /\ groups = <<>>

\* The text of a number read as the code reads it: an int when it is the
\* text of one, else a float when it is the text of one, else the text.
ReadsAs(value, chars) ==
    IF IsIntText(chars) THEN value.t = "int" /\ IntText(value.n) = chars
    ELSE IF IsFloatText(chars) THEN value.t = "float" /\ value.s = chars
    ELSE value.t = "str" /\ value.s = chars

\* C30: a flat record of strings, integers, booleans and nulls converted to
\* the tagged format and back is the record it was, each value with its
\* type; and a number read from the tagged format is an integer when its
\* text is one, else a float, else the text itself.
C30_ConversionRoundTrip ==
    /\ Done("convert_to_dynamodb_item")
           => from_dynamodb_record(out.val) = req.args.data
    /\ Done("convert_from_dynamodb_item")
           => \A k \in DOMAIN req.args.item :
                 req.args.item[k].tag = "N" => ReadsAs(out.val[k], req.args.item[k].v)


\* C31: every invocation of lambda_handler ends with a response: it makes at
\* most three gateway calls, each call runs its body at most as many times as
\* its retry budget allows and sleeps only between two attempts, and an
\* accepted invocation always reaches its return.
C31_InvocationTerminates ==
    /\ [](Done("lambda_handler")
            => /\ Len(out.ops) <= 3
               /\ \A i \in DOMAIN out.ops :
                     /\ out.ops[i].runs <= Budget(out.ops[i].op)
                     /\ out.ops[i].requests <= out.ops[i].runs
                     /\ Len(out.ops[i].sleeps) = out.ops[i].runs - 1)
    /\ (Pending("lambda_handler") ~> (Done("lambda_handler") /\ ~Raised(out.exc)))

\* An invocation whose two gateway calls both failed, the second after its
\* whole budget, and which returned a response.
C31_Witness ==
    /\ Done("lambda_handler")
    /\ ~Raised(out.exc)
    /\ Len(out.ops) = 2
    /\ ~out.ops[1].ok
    /\ out.ops[2].op = "send_message"
    /\ out.ops[2].runs = Budget("send_message")
    /\ ~out.ops[2].ok

\* A gateway call of the invocation raised to its caller.
Faulted == \E i \in DOMAIN out.ops : out.ops[i].exc # "none"

\* C32: lambda_handler never raises; when a gateway call made while handling
\* the event or the card action raised, or the body could not be decoded, the
\* invocation returns a failure response, success=false, whose message
\* carries the text of the error.
C32_FaultsBecomeFailureResponses ==
    Done("lambda_handler")
        => /\ ~Raised(out.exc)
           /\ (Faulted \/ safe_json_loads(req.args.event.body, None) = None)
                 => /\ out.resp.success = PyFalse
                    /\ out.resp.message.val # <<>>

\* C33: a valid card submission calls the gateways in the order create_chat,
\* save_ticket, send_message: the group creation is attempted first, the
\* store write follows it, and the message into the group comes last and
\* only after a group was created and the write succeeded.
C33_SubmissionCallOrder ==
    (Done("handle_card_action") /\ IsValidSubmit(req))
        => /\ 1 <= Len(out.ops) /\ Len(out.ops) <= 3
           /\ out.ops[1].op = "create_chat"
           /\ Len(out.ops) >= 2 => out.ops[2].op = "save_ticket"
           /\ Len(out.ops) = 3
                 => /\ out.ops[3].op = "send_message"
                    /\ out.ops[1].ok
                    /\ out.ops[2].ok
                    /\ out.ops[3].chat # ""

\* The stored record of the identifier the call was made for.
Written == CHOOSE x \in table : x.ticket_id.v = req.args.ticket_id

Ending ==
    {i \in DOMAIN req.args.results :
        \/ ~Raised(req.args.results[i].exc)
        \/ /\ "Exception" \notin req.args.exceptions
           /\ req.args.results[i].exc.cls \notin req.args.exceptions}

\* The call at which the loop of the request stops.
LastCall ==
    IF Ending = {} THEN req.args.max_attempts
    ELSE CHOOSE i \in Ending : \A j \in Ending : i <= j

\* C35: a function wrapped by retry(max_attempts=n, delay=d, backoff=b) is
\* called until it returns, raises an exception that is not retried, or has
\* failed n times; the wrapper returns what that call returned or raises what
\* it raised, and has slept once between two consecutive calls, d, d*b,
\* d*b*b, ..., and not after the last one.  A send_message whose first
\* attempt fails and whose second succeeds returns the success.
C35_RetryContract ==
    /\ Done("retry")
          => /\ TheCall.runs = LastCall
             /\ out.exc = req.args.results[LastCall].exc
             /\ out.val = req.args.results[LastCall].val
             /\ TheCall.sleeps =
                    [i \in 1..(LastCall - 1) |-> req.args.delay * req.args.backoff ^ (i - 1)]
    /\ (Done("send_message") /\ req.args.chat_id # "" /\ req.env.send[1] = <<"fail", "ok">>)
          => /\ ~Raised(out.exc)
             /\ out.val = Dict("code_0", <<>>)
             /\ TheCall.runs = 2
             /\ TheCall.sleeps = <<1>>

\* Three attempts were made, the first two failed with retried exceptions,
\* and the delay grew between them.
C35_Witness ==
    /\ Done("retry")
    /\ TheCall.runs = 3
    /\ req.args.backoff > 1
    /\ ~Raised(out.exc)

\* The store query of the history command failed.
QueryFailed ==
    /\ Done("handle_history_command")
    /\ out.ops # <<>>
    /\ out.ops[1].op = "get_user_tickets"
    /\ ~out.ops[1].ok

\* C36: a history command whose store query fails is answered with
\* success=false and a message holding the text of the error; that same text
\* is sent, in one chat message, to the chat of the command, and neither a
\* history nor the no-records message is sent.
C36_FailedQueryReported ==
    QueryFailed
        => /\ ~Raised(out.exc)
           /\ out.resp.success = PyFalse
           /\ out.resp.message.kind = "history_failed"
           /\ out.resp.message.val # <<>>
           /\ Len(out.ops) = 2
           /\ out.ops[2].op = "send_message"
           /\ out.ops[2].ok
           /\ out.ops[2].chat = req.args.chat_id
           /\ out.ops[2].content = Dict("text", out.resp.message)

\* C37: the history sent to a user lists only stored tickets of that user,
\* each of them at most once, and at most MAX_HISTORY_RECORDS of them.
C37_HistoryOwnOnceBounded ==
    Done("handle_history_command")
        => \A i \in SendsOf("history") :
              /\ \A j \in DOMAIN Blocks(i) :
                    \E x \in UserItems : x.ticket_id.v = Blocks(i)[j].ticket_id
              /\ \A j, l \in DOMAIN Blocks(i) :
                    j # l => Blocks(i)[j].ticket_id # Blocks(i)[l].ticket_id
              /\ Len(Blocks(i)) <= MAX_HISTORY_RECORDS

\* The user has more tickets than a history may list, the store holds another
\* user's ticket too, and a history of MAX_HISTORY_RECORDS tickets was sent.
C37_Witness ==
    /\ Done("handle_history_command")
    /\ Cardinality(UserItems) > MAX_HISTORY_RECORDS
    /\ table # UserItems
    /\ \E i \in SendsOf("history") :
          out.ops[i].ok /\ Len(Blocks(i)) = MAX_HISTORY_RECORDS

\* C38: a content command during which create_support_case succeeded is
\* answered with success=true, also when the chat message that confirms the
\* case cannot be sent: no failure is reported for a case that exists.
C38_CreatedCaseNeverReportedFailed ==
    (/\ Done("handle_content_command")
     /\ \E i \in CallsOf("create_support_case") : out.ops[i].ok)
        => /\ ~Raised(out.exc)
           /\ out.resp.success = PyTrue

\* The stored records of the submission r: its owner and its title.
RecordsOf(r) ==
    {x \in table : x.user_id.v = Submitted(r).user_id /\ x.title.v = Submitted(r).title}

\* C39: after a delivery of a valid card submission, the first one or a
\* repeated one, in the same clock second or in a later one, the store holds
\* exactly one ticket record of the submission and exactly one discussion
\* group exists for it.
C39_RedeliveryIdempotent ==
    (Done("handle_card_action") /\ IsValidSubmit(req))
        => /\ Cardinality(RecordsOf(req)) = 1
           /\ Len(groups) = 1

\* The attributes update_ticket_status may write.
UpdatedFields == {"status", "updated_at", "aws_case_id"}

\* Record y is record x with, at most, the updated attributes changed.
SameButUpdated(x, y) ==
    /\ DOMAIN x \ UpdatedFields = DOMAIN y \ UpdatedFields
    /\ \A f \in DOMAIN x \ UpdatedFields : y[f] = x[f]

\* The record stored under the identifier of the call, in a table.
Addressed(tbl) == {x \in tbl : x.ticket_id.v = req.args.ticket_id}

\* C40: update_ticket_status writes the status, the update time and, when a
\* non-empty case id is given, the case id of the addressed record, and
\* nothing else: the other attributes of that record and all other records
\* stay as they are; it returns True on success; with an empty ticket id or
\* status it raises ValidationError without a store request; a failed call
\* changes nothing.
C40_UpdateWritesStatusOnly ==
    [][UpdateTicketStatus
        => /\ (req.args.ticket_id = NoTicketId \/ req.args.status = "")
                 => /\ out'.exc.cls = "ValidationError"
                    /\ out'.ops[1].requests = 0
           /\ Raised(out'.exc) => table' = table
           /\ ~Raised(out'.exc)
                 => /\ out'.val = PyTrue
                    /\ table' \ Addressed(table') = table \ Addressed(table)
                    /\ Cardinality(Addressed(table')) = 1
                    /\ \A y \in Addressed(table') :
                          /\ y.status.v = req.args.status
                          /\ ParseInt(y.updated_at.v) = now'
                          /\ req.args.aws_case_id # ""
                                => y.aws_case_id.v = req.args.aws_case_id
                          /\ \A x \in Addressed(table) :
                                /\ SameButUpdated(x, y)
                                /\ req.args.aws_case_id = ""
                                      => /\ ("aws_case_id" \in DOMAIN y)
                                            <=> ("aws_case_id" \in DOMAIN x)
                                         /\ "aws_case_id" \in DOMAIN x
                                               => y.aws_case_id = x.aws_case_id]_vars

\* A stored ticket with a group, beside another ticket, was closed with a
\* case id.
C40_Witness ==
    /\ Done("update_ticket_status")
    /\ ~Raised(out.exc)
    /\ req.args.aws_case_id # ""
    /\ Cardinality(table) >= 2
    /\ \E y \in Addressed(table) :
          /\ "chat_id" \in DOMAIN y
          /\ "created_at" \in DOMAIN y
          /\ y.status.v = "closed"
          /\ "aws_case_id" \in DOMAIN y
====
